---- MODULE Spec2Model ----
(***************************************************************************)
(* Greedy channel router (Rivest-Fiduccia), class Router of                *)
(* python/prototyping/rf83_bvh.py.  The router object is one record; one   *)
(* action per phase of the column loop of route(), plus the entry points   *)
(* route_and_retry() and reset().  Columns are 0-based as in the source;   *)
(* the pin sequences T and B are 1-based TLA+ sequences, so the pin of     *)
(* column x is T[x + 1].  The networkx graph G is kept with its node       *)
(* insertion order, because G.edges reports each edge from its earlier     *)
(* inserted endpoint and widen_channel depends on that order.              *)
(***************************************************************************)
EXTENDS Integers, Sequences, FiniteSets, TLC

\* ------------------------------------------------------------------ bounds
MaxLen == 2
MaxNet == 2
MaxInitWidth == 2
MaxJog == 2
MaxTries == 1
MaxResets == 1
MaxScore == 1

\* Python's None, for "no pin", "no track", "no argument".
None == 0 - 1

\* ----------------------------------------------------------- generic helpers
Range(s) == {s[i] : i \in DOMAIN s}

Min(S) == CHOOSE x \in S : \A y \in S : x <= y

Max(S) == CHOOSE x \in S : \A y \in S : x >= y

Abs(n) == IF n < 0 THEN 0 - n ELSE n

RECURSIVE sorted(_)
sorted(S) == IF S = {} THEN <<>> ELSE <<Min(S)>> \o sorted(S \ {Min(S)})

Reverse(s) == [i \in 1 .. Len(s) |-> s[Len(s) + 1 - i]]

RECURSIVE Flatten(_)
Flatten(ss) == IF ss = <<>> THEN <<>> ELSE Head(ss) \o Flatten(Tail(ss))

RECURSIVE SumSeq(_)
SumSeq(s) == IF s = <<>> THEN 0 ELSE Head(s) + SumSeq(Tail(s))

\* Python 3 round() of w / 2: halves are rounded to the even neighbour.
round_half(w) ==
    IF w % 2 = 0 THEN w \div 2
    ELSE IF (w \div 2) % 2 = 0 THEN w \div 2 ELSE (w \div 2) + 1

\* ------------------------------------------------------------ networkx.Graph
\* nodes: the nodes in insertion order; net: edge (a set of two nodes) -> net.
\* ports: the 'ports' attribute of the nodes that carry one.
EmptyGraph == [nodes |-> <<>>, net |-> <<>>, ports |-> <<>>]

has_node(g, n) == n \in Range(g.nodes)

add_node(g, n) == IF has_node(g, n) THEN g ELSE [g EXCEPT !.nodes = Append(@, n)]

add_edge(g, u, v, net) ==
    LET g2 == add_node(add_node(g, u), v)
    IN  [nodes |-> g2.nodes,
         net   |-> [e \in (DOMAIN g.net) \cup {{u, v}} |->
                        IF e = {u, v} THEN net ELSE g.net[e]],
         ports |-> g.ports]

Index(s, n) == CHOOSE i \in DOMAIN s : s[i] = n

\* G.edges yields (u, v) with u the endpoint that comes first in node order.
edge_u(g, e) == CHOOSE u \in e : \A v \in e : Index(g.nodes, u) <= Index(g.nodes, v)

edge_v(g, e) == CHOOSE v \in e : v # edge_u(g, e)

neighbors(g, n) == {m \in Range(g.nodes) : {n, m} \in DOMAIN g.net}

\* ------------------------------------------------------------------ getters
Tat(r, x) == r.T[x + 1]

Bat(r, x) == r.B[x + 1]

Nets(T, B) == (Range(T) \cup Range(B)) \ {0}

all_tracks(r) == 1 .. r.channel_width

occupied_tracks(r) == UNION {r.Y[n] : n \in DOMAIN r.Y}

\* Faulty variant of free_tracks: the owners of the tracks are not subtracted.
free_tracks_ignoring_owners(r) == all_tracks(r)

free_tracks(r) == all_tracks(r) \ occupied_tracks(r)

split_nets(r) == sorted({n \in DOMAIN r.Y : Cardinality(r.Y[n]) > 1})

\* (y1, y2, net) of every edge with both ends in the current column, y1 being
\* the row of the endpoint G.edges reports first.
vertical_wiring(r) ==
    {<<edge_u(r.G, e)[2], edge_v(r.G, e)[2], r.G.net[e]>> :
        e \in {d \in DOMAIN r.G.net : \A n \in d : n[1] = r.current_column}}

\* "if net:" takes net = 0 like None: no net given.
next_pin(r, net, side) ==
    LET N      == Len(r.T)
        any    == net = None \/ net = 0
        top    == {i \in 0 .. N - 1 : i > r.current_column /\ (any \/ r.T[i + 1] = net)}
        bottom == {i \in 0 .. N - 1 : i > r.current_column /\ (any \/ r.B[i + 1] = net)}
    IN  IF side = "T" /\ top # {} THEN Min(top)
        ELSE IF side = "B" /\ bottom # {} THEN Min(bottom)
        ELSE IF side = "any" /\ (top \cup bottom) # {} THEN Min(top \cup bottom)
        ELSE None

\* Faulty variant of pins: a pin counts as unrouted whether or not its
\* terminal is in the graph.
pins_ignoring_terminals(r) ==
    LET x == r.current_column
    IN  IF x >= r.channel_length THEN <<None, None>>
        ELSE <<IF Tat(r, x) > 0 THEN Tat(r, x) ELSE None,
               IF Bat(r, x) > 0 THEN Bat(r, x) ELSE None>>

pins(r) ==
    LET x == r.current_column
    IN  IF x >= r.channel_length THEN <<None, None>>
        ELSE LET top_net    == IF Tat(r, x) > 0 THEN Tat(r, x) ELSE None
                 bottom_net == IF Bat(r, x) > 0 THEN Bat(r, x) ELSE None
             IN  <<IF ~has_node(r.G, <<x, r.channel_width + 1>>) THEN top_net ELSE None,
                   IF ~has_node(r.G, <<x, 0>>) THEN bottom_net ELSE None>>

\* finished raises TypeError when Y is empty: set.union() without arguments.
finished_raises(r) == next_pin(r, None, "any") = None /\ DOMAIN r.Y = {}

\* Faulty variant of finished: the test of the occupied tracks is missing.
finished_with_tracks_owned(r) == next_pin(r, None, "any") = None

finished(r) == next_pin(r, None, "any") = None /\ occupied_tracks(r) = {}

classify_net(r, net) ==
    LET next_top    == next_pin(r, net, "T")
        next_bottom == next_pin(r, net, "B")
    IN  IF next_top # None /\ (next_bottom = None \/ next_bottom >= next_top + r.steady_net_constant)
        THEN "rising"
        ELSE IF next_bottom # None /\ (next_top = None \/ next_top >= next_bottom + r.steady_net_constant)
        THEN "falling"
        ELSE "steady"

\* Faulty variant of compute_density: the column at the boundary is counted
\* on neither side (range(alpha + 1, channel_length)).
compute_density_skipping_boundary(T, B) ==
    LET N == Len(T)
        left_nets(alpha)  == {T[i + 1] : i \in 0 .. alpha - 1} \cup {B[i + 1] : i \in 0 .. alpha - 1}
        right_nets(alpha) == {T[i + 1] : i \in alpha + 1 .. N - 1} \cup {B[i + 1] : i \in alpha + 1 .. N - 1}
        density(alpha)    == Cardinality((left_nets(alpha) \cap right_nets(alpha)) \ {0})
    IN  IF N = 0 THEN 0 ELSE Max({0} \cup {density(alpha) : alpha \in 0 .. N - 1})

compute_density(T, B) ==
    LET N == Len(T)
        left_nets(alpha)  == {T[i + 1] : i \in 0 .. alpha - 1} \cup {B[i + 1] : i \in 0 .. alpha - 1}
        right_nets(alpha) == {T[i + 1] : i \in alpha .. N - 1} \cup {B[i + 1] : i \in alpha .. N - 1}
        density(alpha)    == Cardinality((left_nets(alpha) \cap right_nets(alpha)) \ {0})
    IN  IF N = 0 THEN 0 ELSE Max({0} \cup {density(alpha) : alpha \in 0 .. N - 1})

\* ------------------------------------------------- step 1: connect the pins
add_vertical_wire(r, net, from_track, to_track) ==
    LET y1 == IF from_track < to_track THEN from_track ELSE to_track
        y2 == IF from_track < to_track THEN to_track ELSE from_track
    IN  [r EXCEPT !.G = add_edge(@, <<r.current_column, y1>>, <<r.current_column, y2>>, net)]

Y_add(r, net, track) == [r EXCEPT !.Y[net] = @ \cup {track}]

Y_remove(r, net, track) == [r EXCEPT !.Y[net] = @ \ {track}]

\* The branch "Overlap, only keep the shortest vertical wire" of connect_pins:
\* the side whose pin it leaves unconnected there, "none" in the other
\* branches.
deferred_pin(r) ==
    LET top_net    == Tat(r, r.current_column)
        bottom_net == Bat(r, r.current_column)
        possible_bottom == free_tracks(r) \cup r.Y[bottom_net]
        possible_top    == free_tracks(r) \cup r.Y[top_net]
    IN  IF /\ bottom_net # 0 /\ top_net # 0 /\ top_net # bottom_net
           /\ possible_bottom # {} /\ possible_top # {}
           /\ ~(Min(possible_bottom) < Max(possible_top))
        THEN IF Min(possible_bottom) < (r.channel_width + 1 - Max(possible_top))
             THEN "T" ELSE "B"
        ELSE "none"

\* Faulty variant of connect_pins: overlapping connections of two nets are
\* both committed.
connect_pins_despite_overlap(r) ==
    LET top_net    == Tat(r, r.current_column)
        bottom_net == Bat(r, r.current_column)
        y1 == 0
        y2 == r.channel_width + 1
        possible_bottom == free_tracks(r) \cup r.Y[bottom_net]
        possible_top    == free_tracks(r) \cup r.Y[top_net]
        bottom_track == IF bottom_net # 0 /\ possible_bottom # {} THEN Min(possible_bottom) ELSE None
        top_track    == IF top_net # 0 /\ possible_top # {} THEN Max(possible_top) ELSE None
        bottom_wire(q) == add_vertical_wire(Y_add(q, bottom_net, bottom_track), bottom_net, 0, bottom_track)
        top_wire(q)    == add_vertical_wire(Y_add(q, top_net, top_track), top_net, top_track, r.channel_width + 1)
    IN  IF /\ top_net # 0 /\ bottom_net # 0
           /\ top_net = bottom_net
           /\ Cardinality(occupied_tracks(r)) = r.channel_width
           /\ r.Y[top_net] = {}
           /\ next_pin(r, top_net, "any") = None
        THEN add_vertical_wire(r, top_net, y1, y2)
        ELSE IF bottom_net # 0 /\ top_net # 0 /\ bottom_track # None /\ top_track # None
        THEN top_wire(bottom_wire(r))
        ELSE IF bottom_net # 0 /\ bottom_track # None
        THEN bottom_wire(r)
        ELSE IF top_net # 0 /\ top_track # None
        THEN top_wire(r)
        ELSE r

connect_pins(r) ==
    LET top_net    == Tat(r, r.current_column)
        bottom_net == Bat(r, r.current_column)
        y1 == 0
        y2 == r.channel_width + 1
        possible_bottom == free_tracks(r) \cup r.Y[bottom_net]
        possible_top    == free_tracks(r) \cup r.Y[top_net]
        bottom_track == IF bottom_net # 0 /\ possible_bottom # {} THEN Min(possible_bottom) ELSE None
        top_track    == IF top_net # 0 /\ possible_top # {} THEN Max(possible_top) ELSE None
        bottom_wire(q) == add_vertical_wire(Y_add(q, bottom_net, bottom_track), bottom_net, 0, bottom_track)
        top_wire(q)    == add_vertical_wire(Y_add(q, top_net, top_track), top_net, top_track, r.channel_width + 1)
    IN  IF /\ top_net # 0 /\ bottom_net # 0
           /\ top_net = bottom_net
           /\ Cardinality(occupied_tracks(r)) = r.channel_width
           /\ r.Y[top_net] = {}
           /\ next_pin(r, top_net, "any") = None
        THEN add_vertical_wire(r, top_net, y1, y2)
        ELSE IF bottom_net # 0 /\ top_net # 0 /\ bottom_track # None /\ top_track # None
        THEN IF top_net = bottom_net
             THEN top_wire(bottom_wire(r))
             ELSE IF bottom_track < top_track
             THEN top_wire(bottom_wire(r))
             ELSE IF bottom_track < (r.channel_width + 1 - top_track)
             THEN bottom_wire(r)
             ELSE top_wire(r)
        ELSE IF bottom_net # 0 /\ bottom_track # None
        THEN bottom_wire(r)
        ELSE IF top_net # 0 /\ top_track # None
        THEN top_wire(r)
        ELSE r

\* ------------------------------------------- step 2: collapse the split nets
\* Index sets of one size in the order itertools.combinations yields them.
RECURSIVE lex_sorted(_)
lex_sorted(S) ==
    IF S = {} THEN <<>>
    ELSE LET m == CHOOSE A \in S : \A C \in S \ {A} : Min((A \ C) \cup (C \ A)) \in A
         IN  <<m>> \o lex_sorted(S \ {m})

combinations(elements, n) ==
    LET idx == lex_sorted({A \in SUBSET (1 .. Len(elements)) : Cardinality(A) = n})
    IN  [k \in 1 .. Len(idx) |-> [j \in 1 .. n |-> elements[sorted(idx[k])[j]]]]

powerset(elements, exclude_empty) ==
    (IF exclude_empty THEN <<>> ELSE << <<>> >>)
        \o Flatten([n \in 1 .. Len(elements) |-> combinations(elements, n)])

\* itertools.product: the last factor varies fastest.
RECURSIVE product(_)
product(ls) ==
    IF ls = <<>> THEN << <<>> >>
    ELSE LET first == Head(ls)
             rest  == product(Tail(ls))
         IN  Flatten([i \in 1 .. Len(first) |-> [j \in 1 .. Len(rest) |-> <<first[i]>> \o rest[j]]])

\* Closed spans [a[1], a[2]] and [b[1], b[2]] intersect (touching counts).
overlaps(a, b) ==
    IF a[1] <= b[1] THEN a[2] >= b[1] ELSE b[2] >= a[1]

contiguous(group) ==
    \/ Len(group) = 1
    \/ \A k \in 1 .. Len(group) - 1 : group[k][2] = group[k + 1][1]

validate_jog_pattern(pattern) ==
    \A i \in DOMAIN pattern : \A j \in DOMAIN pattern :
        i < j =>
            \A a \in DOMAIN pattern[i] : \A b \in DOMAIN pattern[j] :
                LET low1 == pattern[i][a][1]  high1 == pattern[i][a][2]
                    low2 == pattern[j][b][1]  high2 == pattern[j][b][2]
                IN  high1 < low2 \/ high2 < low1

generate_jog_patterns(r) ==
    LET nets == split_nets(r)
        net_jogs(net) == LET track_list == sorted(r.Y[net])
                         IN  [k \in 1 .. Len(track_list) - 1 |-> <<track_list[k], track_list[k + 1]>>]
        jogs == [k \in DOMAIN nets |-> net_jogs(nets[k])]
        all  == product([k \in DOMAIN jogs |-> powerset(jogs[k], TRUE)])
    IN  SelectSeq(all, validate_jog_pattern)

RECURSIVE sorted_list(_)
sorted_list(s) ==
    IF s = <<>> THEN <<>>
    ELSE LET m == Min(Range(s))
             i == Min({k \in DOMAIN s : s[k] = m})
         IN  <<m>> \o sorted_list(SubSeq(s, 1, i - 1) \o SubSeq(s, i + 1, Len(s)))

\* Faulty variant of evaluate_jogs: a net the pattern finishes frees no
\* track of its own.
evaluate_jogs_without_finished_nets(r, pattern) ==
    LET all_jogs == Flatten(pattern)
        almost_finished_nets ==
            {net \in DOMAIN r.Y : next_pin(r, net, "any") = None /\ Cardinality(r.Y[net]) > 1}
        group_tracks(group) == UNION {{group[k][1], group[k][2]} : k \in DOMAIN group}
        finishes(group) ==
            /\ Len(group) # 0
            /\ contiguous(group)
            /\ \E net \in almost_finished_nets : r.Y[net] \subseteq group_tracks(group)
        n_freed == Len(all_jogs)
        jog_tracks == UNION {{all_jogs[k][1], all_jogs[k][2]} : k \in DOMAIN all_jogs}
        nets == split_nets(r)
        dangling_tracks(net) == r.Y[net] \ jog_tracks
        distance(net) ==
            LET distance_from_bottom == Min(dangling_tracks(net)) - 1
                distance_from_top    == r.channel_width - Max(dangling_tracks(net))
            IN  IF distance_from_bottom < distance_from_top
                THEN distance_from_bottom ELSE distance_from_top
        kept == SelectSeq(nets, LAMBDA net : dangling_tracks(net) # {})
        net_distances == [k \in DOMAIN kept |-> distance(kept[k])]
        jog_length_sum == SumSeq([k \in DOMAIN all_jogs |-> all_jogs[k][2] - all_jogs[k][1]])
    IN  <<n_freed, sorted_list(net_distances), jog_length_sum>>

evaluate_jogs(r, pattern) ==
    LET all_jogs == Flatten(pattern)
        almost_finished_nets ==
            {net \in DOMAIN r.Y : next_pin(r, net, "any") = None /\ Cardinality(r.Y[net]) > 1}
        group_tracks(group) == UNION {{group[k][1], group[k][2]} : k \in DOMAIN group}
        finishes(group) ==
            /\ Len(group) # 0
            /\ contiguous(group)
            /\ \E net \in almost_finished_nets : r.Y[net] \subseteq group_tracks(group)
        n_freed == Len(all_jogs) + Cardinality({k \in DOMAIN pattern : finishes(pattern[k])})
        jog_tracks == UNION {{all_jogs[k][1], all_jogs[k][2]} : k \in DOMAIN all_jogs}
        nets == split_nets(r)
        dangling_tracks(net) == r.Y[net] \ jog_tracks
        distance(net) ==
            LET distance_from_bottom == Min(dangling_tracks(net)) - 1
                distance_from_top    == r.channel_width - Max(dangling_tracks(net))
            IN  IF distance_from_bottom < distance_from_top
                THEN distance_from_bottom ELSE distance_from_top
        kept == SelectSeq(nets, LAMBDA net : dangling_tracks(net) # {})
        net_distances == [k \in DOMAIN kept |-> distance(kept[k])]
        jog_length_sum == SumSeq([k \in DOMAIN all_jogs |-> all_jogs[k][2] - all_jogs[k][1]])
    IN  <<n_freed, sorted_list(net_distances), jog_length_sum>>

\* Faulty variant of compare_scores: the last tiebreaker is "at least".
compare_scores_or_equal(score1, score2) ==
    LET n_freed1 == score1[1]  distance_ranking1 == score1[2]  jog_length_sum1 == score1[3]
        n_freed2 == score2[1]  distance_ranking2 == score2[2]  jog_length_sum2 == score2[3]
        shorter == IF Len(distance_ranking1) < Len(distance_ranking2)
                   THEN Len(distance_ranking1) ELSE Len(distance_ranking2)
        differ  == {k \in 1 .. shorter : distance_ranking1[k] # distance_ranking2[k]}
    IN  IF n_freed1 # n_freed2 THEN n_freed1 > n_freed2
        ELSE IF distance_ranking1 # distance_ranking2 /\ differ # {}
        THEN distance_ranking1[Min(differ)] > distance_ranking2[Min(differ)]
        ELSE jog_length_sum1 >= jog_length_sum2

compare_scores(score1, score2) ==
    LET n_freed1 == score1[1]  distance_ranking1 == score1[2]  jog_length_sum1 == score1[3]
        n_freed2 == score2[1]  distance_ranking2 == score2[2]  jog_length_sum2 == score2[3]
        shorter == IF Len(distance_ranking1) < Len(distance_ranking2)
                   THEN Len(distance_ranking1) ELSE Len(distance_ranking2)
        differ  == {k \in 1 .. shorter : distance_ranking1[k] # distance_ranking2[k]}
    IN  IF n_freed1 # n_freed2 THEN n_freed1 > n_freed2
        ELSE IF distance_ranking1 # distance_ranking2 /\ differ # {}
        THEN distance_ranking1[Min(differ)] > distance_ranking2[Min(differ)]
        ELSE jog_length_sum1 > jog_length_sum2

\* The loop over jog_patterns: <<best_pattern, best_score>>, <<>> for None.
RECURSIVE best_of(_, _, _, _)
best_of(r, jog_patterns, best_pattern, best_score) ==
    IF jog_patterns = <<>> THEN best_pattern
    ELSE LET combo == Head(jog_patterns)
             score == evaluate_jogs(r, combo)
         IN  IF compare_scores(score, best_score)
             THEN best_of(r, Tail(jog_patterns), combo, score)
             ELSE best_of(r, Tail(jog_patterns), best_pattern, best_score)

RECURSIVE apply_jogs(_, _, _)
apply_jogs(r, net, group) ==
    IF group = <<>> THEN r
    ELSE LET y1 == Head(group)[1]
             y2 == Head(group)[2]
         IN  apply_jogs(Y_remove(add_vertical_wire(r, net, y1, y2), net, y1), net, Tail(group))

RECURSIVE apply_pattern(_, _, _)
apply_pattern(r, nets, pattern) ==
    IF nets = <<>> \/ pattern = <<>> THEN r
    ELSE apply_pattern(apply_jogs(r, Head(nets), Head(pattern)), Tail(nets), Tail(pattern))

collapse_split_nets(r) ==
    LET nets == split_nets(r)
        jog_patterns == generate_jog_patterns(r)
        existing_verticals ==
            {<<Min({e[1], e[2]}), Max({e[1], e[2]}), e[3]>> : e \in vertical_wiring(r)}
        valid(pattern) ==
            \A idx \in DOMAIN pattern : \A k \in DOMAIN pattern[idx] :
                \A v \in existing_verticals :
                    ~(v[3] # nets[idx] /\ overlaps(pattern[idx][k], <<v[1], v[2]>>))
        filtered_patterns == SelectSeq(jog_patterns, valid)
        best_pattern == best_of(r, filtered_patterns, <<>>, <<0, <<>>, r.channel_width>>)
    IN  IF Len(nets) = 0 THEN r
        ELSE IF Len(jog_patterns) = 0 THEN r
        ELSE IF Len(filtered_patterns) = 0 THEN r
        ELSE IF best_pattern = <<>> THEN r
        ELSE apply_pattern(r, nets, best_pattern)

\* ---------------------------------------- step 3: compress the split nets
\* Faulty variant of scout_loop: a track another net occupies ends the
\* search instead of being jumped over.
RECURSIVE scout_loop_without_jumps(_, _, _, _, _, _)
scout_loop_without_jumps(r, net, i, goal, dir, marker) ==
    IF (dir = 1 /\ i > goal) \/ (dir = 0 - 1 /\ i < goal) THEN marker
    ELSE IF \E v \in vertical_wiring(r) : Min({v[1], v[2]}) <= i /\ i <= Max({v[1], v[2]})
    THEN marker
    ELSE IF i \in occupied_tracks(r) /\ i \notin r.Y[net]
    THEN marker
    ELSE scout_loop_without_jumps(r, net, i + dir, goal, dir, i)

\* The for loop of scout from row i on: dir is +1 or -1, marker the last
\* row recorded so far.
RECURSIVE scout_loop(_, _, _, _, _, _)
scout_loop(r, net, i, goal, dir, marker) ==
    IF (dir = 1 /\ i > goal) \/ (dir = 0 - 1 /\ i < goal) THEN marker
    ELSE IF \E v \in vertical_wiring(r) : Min({v[1], v[2]}) <= i /\ i <= Max({v[1], v[2]})
    THEN marker
    ELSE IF i \in occupied_tracks(r) /\ i \notin r.Y[net]
    THEN scout_loop(r, net, i + dir, goal, dir, marker)
    ELSE scout_loop(r, net, i + dir, goal, dir, i)

scout(r, net, track, goal) ==
    IF goal > track THEN scout_loop(r, net, track + 1, goal, 1, track)
    ELSE IF goal < track THEN scout_loop(r, net, track - 1, goal, 0 - 1, track)
    ELSE track

\* Faulty variant of jog: the track is given up, the destination is wired
\* but not taken.
jog_dropping_track(r, net, track, goal) ==
    LET destination == scout(r, net, track, goal)
    IN  IF destination # track
        THEN add_vertical_wire(Y_remove(r, net, track), net, track, destination)
        ELSE r

jog(r, net, track, goal) ==
    LET destination == scout(r, net, track, goal)
    IN  IF destination # track
        THEN add_vertical_wire(Y_add(Y_remove(r, net, track), net, destination), net, track, destination)
        ELSE r

compress_split_net(r, net) ==
    LET tracks      == sorted(r.Y[net])
        low_track   == tracks[1]
        low_marker  == scout(r, net, low_track, tracks[2])
        high_track  == tracks[Len(tracks)]
        high_marker == scout(r, net, high_track, tracks[Len(tracks) - 1])
        r1 == IF Abs(high_marker - high_track) >= r.minimum_jog_length
              THEN jog(r, net, high_track, high_marker) ELSE r
    IN  IF Abs(low_marker - low_track) >= r.minimum_jog_length
        THEN jog(r1, net, low_track, low_marker) ELSE r1

\* for net in self.split_nets: self.compress_split_net(net)
RECURSIVE compress_all(_, _)
compress_all(r, nets) ==
    IF nets = <<>> THEN r
    ELSE compress_all(compress_split_net(r, Head(nets)), Tail(nets))

\* ----------------------------------- step 4: raise rising, lower falling nets
\* list.sort(key = distance, reverse = True) is stable: among equal distances
\* the entries keep the order in which they were appended.
RECURSIVE sort_by_distance(_)
sort_by_distance(s) ==
    IF s = <<>> THEN <<>>
    ELSE LET m == Max({s[k][1] : k \in DOMAIN s})
             i == Min({k \in DOMAIN s : s[k][1] = m})
         IN  <<s[i]>> \o sort_by_distance(SubSeq(s, 1, i - 1) \o SubSeq(s, i + 1, Len(s)))

RECURSIVE jog_all(_, _)
jog_all(r, track_distances) ==
    IF track_distances = <<>> THEN r
    ELSE LET d == Head(track_distances)
         IN  jog_all(jog(r, d[2], d[3], d[4]), Tail(track_distances))

\* Faulty variant of push_unsplit_nets: steady nets are not skipped but
\* pushed down like falling nets.
push_unsplit_nets_steady_too(r) ==
    LET x == r.current_column
        N == Len(r.T)
        upcoming_pins == {r.T[i + 1] : i \in x .. N - 1} \cup {r.B[i + 1] : i \in x .. N - 1}
        nets_to_jog == sorted({net \in upcoming_pins : net # 0 /\ Cardinality(r.Y[net]) = 1})
        track(net) == CHOOSE t \in r.Y[net] : TRUE
        goal(net)  == IF classify_net(r, net) = "rising" THEN r.channel_width ELSE 1
        distance(net) == Abs(track(net) - scout(r, net, track(net), goal(net)))
        wanted == SelectSeq(nets_to_jog,
                            LAMBDA net : distance(net) >= r.minimum_jog_length)
        track_distances == [k \in DOMAIN wanted |->
                               <<distance(wanted[k]), wanted[k], track(wanted[k]), goal(wanted[k])>>]
    IN  jog_all(r, sort_by_distance(track_distances))

push_unsplit_nets(r) ==
    LET x == r.current_column
        N == Len(r.T)
        upcoming_pins == {r.T[i + 1] : i \in x .. N - 1} \cup {r.B[i + 1] : i \in x .. N - 1}
        nets_to_jog == sorted({net \in upcoming_pins : net # 0 /\ Cardinality(r.Y[net]) = 1})
        track(net) == CHOOSE t \in r.Y[net] : TRUE
        goal(net)  == IF classify_net(r, net) = "rising" THEN r.channel_width ELSE 1
        distance(net) == Abs(track(net) - scout(r, net, track(net), goal(net)))
        wanted == SelectSeq(nets_to_jog,
                            LAMBDA net : /\ classify_net(r, net) # "steady"
                                         /\ distance(net) >= r.minimum_jog_length)
        track_distances == [k \in DOMAIN wanted |->
                               <<distance(wanted[k]), wanted[k], track(wanted[k]), goal(wanted[k])>>]
    IN  jog_all(r, sort_by_distance(track_distances))

\* ------------------------------------------------ step 5: widen the channel
\* nx.relabel_nodes(G, f, copy = False) with f moving every node of row >=
\* new_track one row up.  Nodes that stay keep their place in the node order;
\* each moved node is removed and added again at the end, in the order in
\* which _relabel_inplace visits the old labels.
\* Faulty variant of moved: a node on the insertion track itself stays.
moved_if_above(n, new_track) == n[2] > new_track

moved(n, new_track) == n[2] >= new_track

relabel(n, new_track) == IF moved(n, new_track) THEN <<n[1], n[2] + 1>> ELSE n

\* Nodes of DiGraph(list(mapping.items())) in insertion order.
mapping_digraph_nodes(nodes, new_track) ==
    LET items == [i \in 1 .. 2 * Len(nodes) |->
                     <<i, IF i % 2 = 1 THEN nodes[(i + 1) \div 2]
                          ELSE relabel(nodes[i \div 2], new_track)>>]
        first == SelectSeq(items, LAMBDA p : \A j \in 1 .. p[1] - 1 : items[j][2] # p[2])
    IN  [k \in DOMAIN first |-> first[k][2]]

\* topological_generations: a generation, then the successors of its members.
RECURSIVE topological_sort(_, _, _)
topological_sort(generation, g, new_track) ==
    IF generation = <<>> THEN <<>>
    ELSE LET has_child(n) == has_node(g, n) /\ moved(n, new_track)
             parents == SelectSeq(generation, has_child)
             children == [k \in DOMAIN parents |-> relabel(parents[k], new_track)]
         IN  generation \o topological_sort(children, g, new_track)

relabel_order(g, new_track) ==
    LET keys   == Range(g.nodes)
        values == {relabel(n, new_track) : n \in keys}
        D      == mapping_digraph_nodes(g.nodes, new_track)
        is_source(v) == ~(<<v[1], v[2] - 1>> \in keys /\ moved(<<v[1], v[2] - 1>>, new_track))
        visit  == IF keys \cap values # {}
                  THEN Reverse(topological_sort(SelectSeq(D, is_source), g, new_track))
                  ELSE g.nodes
    IN  SelectSeq(visit, LAMBDA n : has_node(g, n) /\ moved(n, new_track))

relabel_nodes(g, new_track) ==
    LET stay  == SelectSeq(g.nodes, LAMBDA n : ~moved(n, new_track))
        order == relabel_order(g, new_track)
        image(e) == {relabel(n, new_track) : n \in e}
    IN  [nodes |-> stay \o [k \in DOMAIN order |-> relabel(order[k], new_track)],
         net   |-> [e \in {image(d) : d \in DOMAIN g.net} |->
                        g.net[CHOOSE d \in DOMAIN g.net : image(d) = e]],
         ports |-> [m \in {relabel(n, new_track) : n \in DOMAIN g.ports} |->
                        g.ports[CHOOSE n \in DOMAIN g.ports : relabel(n, new_track) = m]]]

new_track_position(r, from_side) ==
    LET mid_track == round_half(r.channel_width) + 1
        wiring    == vertical_wiring(r)
        min_start == IF wiring = {} THEN 1 ELSE Min({v[1] : v \in wiring})
        max_end   == IF wiring = {} THEN r.channel_width + 1 ELSE Max({v[2] : v \in wiring})
    IN  IF from_side = "B" THEN (IF min_start < mid_track THEN min_start ELSE mid_track)
        ELSE IF from_side = "T" THEN (IF max_end + 1 > mid_track THEN max_end + 1 ELSE mid_track)
        ELSE mid_track

\* Faulty variant of widen_channel: the tracks and the graph are shifted but
\* channel_width is not incremented.
widen_channel_keeping_width(r, from_side) ==
    LET new_track == new_track_position(r, from_side)
        shift(tracks) == {IF t >= new_track THEN t + 1 ELSE t : t \in tracks}
    IN  [r EXCEPT !.Y = [net \in DOMAIN r.Y |-> shift(r.Y[net])],
                  !.G = relabel_nodes(r.G, new_track)]

widen_channel(r, from_side) ==
    LET new_track == new_track_position(r, from_side)
        shift(tracks) == {IF t >= new_track THEN t + 1 ELSE t : t \in tracks}
    IN  [r EXCEPT !.channel_width = @ + 1,
                  !.Y = [net \in DOMAIN r.Y |-> shift(r.Y[net])],
                  !.G = relabel_nodes(r.G, new_track)]

\* ------------------------------------------------ step 6: extend the nets
\* One net of the loop over self.Y.items(); the tracks of a set of small
\* integers (below 8, as in every channel explored here) are visited in
\* ascending order.
RECURSIVE extend_tracks(_, _, _)
extend_tracks(r, net, tracks) ==
    IF tracks = <<>> THEN r
    ELSE extend_tracks([r EXCEPT !.G = add_edge(@, <<r.current_column, Head(tracks)>>,
                                                   <<r.current_column + 1, Head(tracks)>>, net)],
                       net, Tail(tracks))

\* Faulty variant of extend_loop: a net on one track is released whether or
\* not a pin of it is still to come.
RECURSIVE extend_loop_releasing_unsplit(_, _)
extend_loop_releasing_unsplit(r, nets) ==
    IF nets = <<>> THEN r
    ELSE LET net == Head(nets)
             r1  == IF Cardinality(r.Y[net]) = 1
                    THEN [r EXCEPT !.Y[net] = {}]
                    ELSE extend_tracks(r, net, sorted(r.Y[net]))
         IN  extend_loop_releasing_unsplit(r1, Tail(nets))

RECURSIVE extend_loop(_, _)
extend_loop(r, nets) ==
    IF nets = <<>> THEN r
    ELSE LET net == Head(nets)
             r1  == IF Cardinality(r.Y[net]) = 1 /\ next_pin(r, net, "any") = None
                    THEN [r EXCEPT !.Y[net] = {}]
                    ELSE extend_tracks(r, net, sorted(r.Y[net]))
         IN  extend_loop(r1, Tail(nets))

extend_nets(r) ==
    LET r1 == extend_loop(r, sorted(DOMAIN r.Y))
    IN  [r1 EXCEPT !.channel_length =
            IF @ > r.current_column + 1 THEN @ ELSE r.current_column + 1]

\* ------------------------------------------------------ graph simplifier
STRAIGHT_VERTICAL == <<TRUE, TRUE, FALSE, FALSE>>

STRAIGHT_HORIZONTAL == <<FALSE, FALSE, TRUE, TRUE>>

_get_node_orientation(g) ==
    [g EXCEPT !.ports =
        [n \in Range(g.nodes) |->
            <<\E m \in neighbors(g, n) : m[2] > n[2],
              \E m \in neighbors(g, n) : m[2] < n[2],
              \E m \in neighbors(g, n) : m[1] > n[1],
              \E m \in neighbors(g, n) : m[1] < n[1]>>]]

node_ports(g, n) ==
    IF n \in DOMAIN g.ports THEN g.ports[n] ELSE <<FALSE, FALSE, FALSE, FALSE>>

\* Faulty variant of is_straight: only the vertical pattern counts as straight.
is_straight_vertical_only(g, n) == node_ports(g, n) = STRAIGHT_VERTICAL

is_straight(g, n) == node_ports(g, n) \in {STRAIGHT_HORIZONTAL, STRAIGHT_VERTICAL}

\* Faulty variant of trace_segment: the loop is left after its first step,
\* at whatever node comes next.
trace_segment_one_step(g, critical_nodes, prev, curr, segment_net) ==
    IF is_straight(g, curr)
    THEN IF Cardinality(neighbors(g, curr)) # 2 THEN curr
         ELSE LET next_node == CHOOSE m \in neighbors(g, curr) : m # prev
              IN  IF g.net[{curr, next_node}] # segment_net THEN curr
                  ELSE next_node
    ELSE curr

\* The while loop that follows a straight run from prev over curr.
RECURSIVE trace_segment(_, _, _, _, _)
trace_segment(g, critical_nodes, prev, curr, segment_net) ==
    IF is_straight(g, curr)
    THEN IF Cardinality(neighbors(g, curr)) # 2 THEN curr
         ELSE LET next_node == CHOOSE m \in neighbors(g, curr) : m # prev
              IN  IF g.net[{curr, next_node}] # segment_net THEN curr
                  ELSE IF next_node \in critical_nodes THEN next_node
                  ELSE trace_segment(g, critical_nodes, curr, next_node, segment_net)
    ELSE curr

\* Every reachable graph gives one net per simplified edge, whatever the
\* order in which the set critical_nodes is iterated.
_simplify(g) ==
    LET not_straight == {n \in Range(g.nodes) : ~is_straight(g, n)}
        critical_nodes == IF not_straight = {} /\ Len(g.nodes) > 0
                          THEN {g.nodes[1]} ELSE not_straight
        end_node(start_node, neighbor) ==
            IF neighbor \in critical_nodes THEN neighbor
            ELSE trace_segment(g, critical_nodes, start_node, neighbor, g.net[{start_node, neighbor}])
        found == {<<p[1], end_node(p[1], p[2]), g.net[{p[1], p[2]}]>> :
                     p \in {q \in critical_nodes \X Range(g.nodes) : {q[1], q[2]} \in DOMAIN g.net}}
        dangling == {sg[2] : sg \in {f \in found : f[2] \notin critical_nodes}}
        kept     == {sg \in found : sg[2] \in critical_nodes}
        new_edges == {{sg[1], sg[2]} : sg \in kept}
    IN  IF Len(g.nodes) = 0 \/ DOMAIN g.net = {} THEN g
        ELSE [nodes |-> SelectSeq(g.nodes, LAMBDA n : n \in critical_nodes \cup dangling),
              net   |-> [e \in new_edges |->
                            (CHOOSE sg \in kept : {sg[1], sg[2]} = e)[3]],
              ports |-> [n \in critical_nodes \cap DOMAIN g.ports |-> g.ports[n]]]

\* ---------------------------------------------------------------- the router
\* Router.__init__; initial_channel_width = None asks for compute_density().
Router(T, B, initial_channel_width, minimum_jog_length, steady_net_constant) ==
    LET width == IF initial_channel_width = None THEN compute_density(T, B)
                 ELSE initial_channel_width
    IN  [T |-> T, B |-> B,
         minimum_jog_length  |-> minimum_jog_length,
         steady_net_constant |-> steady_net_constant,
         channel_length |-> Len(T),
         initial_channel_width |-> width,
         channel_width  |-> width,
         current_column |-> 0,
         Y |-> [net \in Nets(T, B) |-> {}],
         G |-> EmptyGraph]

\* Router.reset(initial_channel_width = w): the other arguments stay None.
reset(r, initial_channel_width) ==
    [r EXCEPT !.initial_channel_width = IF initial_channel_width # None /\ initial_channel_width # 0
                                        THEN initial_channel_width ELSE @,
              !.channel_length = Len(r.T),
              !.current_column = 0,
              !.Y = [net \in Nets(r.T, r.B) |-> {}],
              !.G = EmptyGraph]

\* ------------------------------------------------------------------- state
VARIABLES
    router,       \* the Router object
    pc,           \* where the caller and route() stand
    tries_left,   \* argument of the running route_and_retry call
    max_length2,  \* twice the local max_length of route() (1.5 * channel_length)
    unrouted,     \* the locals (top_net, bottom_net) of route(), read from pins
    exc,          \* the exception in flight or handed to the caller
    stop,         \* why the column loop was left: "finished" or "cutoff"
    iters,        \* iterations of the column loop in this route() call
    attempts,     \* route() calls made by the running route_and_retry call
    budget,       \* tries_left of the outermost route_and_retry call
    resets,       \* reset() calls made by the caller
    call,         \* the arguments the constructor was called with
    deferred,     \* the pin connect_pins left out in this column for overlap
    comparison    \* two scores and the two verdicts of compare_scores on them

vars == <<router, pc, tries_left, max_length2, unrouted, exc, stop, iters, attempts, budget, resets, call, deferred, comparison>>

DefaultMinimumJogLength == 1

DefaultSteadyNetConstant == 10

PinSeqs(n) == [1 .. n -> 0 .. MaxNet]

\* Constructor arguments (initial_channel_width, minimum_jog_length): the
\* computed width with each jog length, each explicit width with the default.
Configs ==
    {<<None, j>> : j \in 1 .. MaxJog}
        \cup {<<w, DefaultMinimumJogLength>> : w \in 1 .. MaxInitWidth}

\* Inputs of the test suite and inputs that drive the router into the
\* failsafe with nets still split.
Scenarios ==
    { <<(<<1, 0, 2, 0, 3, 4>>), (<<1, 0, 0, 2, 4, 3>>), None, 1>>,
      <<(<<3, 1, 4, 4>>), (<<1, 4, 3, 1>>), None, 1>>,
      <<(<<1, 2>>), (<<2, 1>>), 4, 3>> }

\* Constructor calls: every pair of equally long pin arrays of up to MaxLen
\* columns with every configuration, and the scenarios.
Inputs ==
    {<<T, B, c[1], c[2]>> :
        T \in UNION {PinSeqs(n) : n \in 0 .. MaxLen},
        B \in UNION {PinSeqs(n) : n \in 0 .. MaxLen},
        c \in Configs}
        \cup Scenarios

\* Constructor calls with a steady_net_constant of their own.
SteadyScenarios ==
    { <<(<<1, 0, 1, 0>>), (<<0, 0, 0, 1>>), None, 1, 2>>,
      <<(<<1, 1, 0, 0>>), (<<0, 0, 0, 1>>), None, 1, 2>> }

\* Constructor calls with a non-positive configuration value.
NonPositiveCalls ==
    { <<(<<1, 2>>), (<<2, 1>>), 0, 1, DefaultSteadyNetConstant>>,
      <<(<<1, 2>>), (<<2, 1>>), None, 0, DefaultSteadyNetConstant>>,
      <<(<<1, 2>>), (<<2, 1>>), None, 1, 0>> }

\* Constructor calls that bring single phases of a column into the cases
\* their rules distinguish: a pin pair of one net in a full channel, a net
\* on three tracks next to another split net, two split nets of which one
\* cannot be collapsed.
PhaseScenarios ==
    { <<(<<2, 1, 2>>), (<<0, 1, 0>>), None, 1, DefaultSteadyNetConstant>>,
      <<(<<1, 2, 0, 1>>), (<<0, 1, 2, 1>>), 6, 2, DefaultSteadyNetConstant>>,
      <<(<<1, 2, 0>>), (<<2, 1, 2>>), 3, 2, DefaultSteadyNetConstant>> }

\* Constructor calls whose second column is widened while tracks and
\* terminals of the first column are in place: from the top in a column
\* without vertical wire, and from the bottom after the widening from the
\* top has connected both pins.
WideningScenarios ==
    { <<(<<1, 2, 0>>), (<<0, 0, 1>>), None, 1, DefaultSteadyNetConstant>>,
      <<(<<0, 1, 2>>), (<<2, 1, 1>>), 1, 1, DefaultSteadyNetConstant>> }

\* A constructor call that puts one net on four tracks of a wide channel, so
\* that the collapse compares patterns whose distance rankings differ in
\* length.
ScoreScenarios ==
    { <<(<<1, 2, 1, 2, 1>>), (<<3, 1, 2, 2, 3>>), 7, 1, DefaultSteadyNetConstant>> }

\* Every constructor call: (T, B, initial_channel_width, minimum_jog_length,
\* steady_net_constant).
Calls ==
    {<<i[1], i[2], i[3], i[4], DefaultSteadyNetConstant>> : i \in Inputs}
        \cup SteadyScenarios \cup NonPositiveCalls \cup PhaseScenarios
                \cup WideningScenarios \cup ScoreScenarios

\* The two assert statements of Router.__init__:
\* assert len(T) == len(B), and assert initial_channel_width > 0 when one
\* is supplied.
construction_fails(T, B, initial_channel_width) ==
    \/ Len(T) # Len(B)
    \/ initial_channel_width # None /\ ~(initial_channel_width > 0)

\* No Router object: the constructor raised and nothing was bound.
NoRouter ==
    [T |-> <<>>, B |-> <<>>,
     minimum_jog_length  |-> None,
     steady_net_constant |-> None,
     channel_length |-> 0,
     initial_channel_width |-> None,
     channel_width  |-> None,
     current_column |-> 0,
     Y |-> <<>>,
     G |-> EmptyGraph]

Init ==
    /\ \E c \in Calls :
          /\ call = [T |-> c[1], B |-> c[2], initial_channel_width |-> c[3],
                     minimum_jog_length |-> c[4], steady_net_constant |-> c[5]]
          /\ IF construction_fails(c[1], c[2], c[3])
             THEN /\ router = NoRouter
                  /\ pc = "rejected"
                  /\ exc = "AssertionError"
             ELSE /\ router = Router(c[1], c[2], c[3], c[4], c[5])
                  /\ pc = "constructed"
                  /\ exc = "none"
    /\ tries_left = None
    /\ max_length2 = 0
    /\ unrouted = <<None, None>>
    /\ stop = "none"
    /\ iters = 0
    /\ attempts = 0
    /\ budget = None
    /\ resets = 0
    /\ deferred = "none"
    /\ comparison = "none"

\* Faulty variant of budget_exhausted: the test of tries_left is missing.
budget_exhausted_never(k) == FALSE

\* if tries_left == 0: raise ValueError
budget_exhausted(k) == k = 0

\* Faulty variant of twice_max_length: the failsafe allows 2.0 times the length.
twice_max_length_doubled(channel_length) == 4 * channel_length

\* max_length = self.channel_length * 1.5, doubled to stay in the integers.
twice_max_length(channel_length) == 3 * channel_length

\* Entry of route_and_retry(k) on router state r, up to the first loop test
\* of route(): with k = 0 it raises ValueError at once, otherwise it calls
\* route(), which is one more routing attempt.
enter_route_and_retry(r, k) ==
    /\ router' = r
    /\ tries_left' = k
    /\ unrouted' = <<None, None>>
    /\ iters' = 0
    /\ stop' = "none"
    /\ IF budget_exhausted(k)
       THEN /\ pc' = "failed"
            /\ exc' = "ValueError"
            /\ UNCHANGED <<max_length2, attempts>>
       ELSE /\ pc' = "loop"
            /\ exc' = "none"
            /\ max_length2' = twice_max_length(r.channel_length)
            /\ attempts' = attempts + 1

route_and_retry ==
    /\ pc = "constructed"
    /\ \E k \in 0 .. MaxTries :
          /\ enter_route_and_retry(router, k)
          /\ budget' = k
    /\ UNCHANGED <<resets, call, deferred, comparison>>

\* while not self.finished
route_loop ==
    /\ pc = "loop"
    /\ IF finished_raises(router)
       THEN pc' = "raised" /\ exc' = "TypeError" /\ UNCHANGED <<stop, iters>>
       ELSE IF finished(router)
       THEN pc' = "exit" /\ stop' = "finished" /\ UNCHANGED <<exc, iters>>
       ELSE pc' = "connect" /\ iters' = iters + 1 /\ UNCHANGED <<exc, stop>>
    /\ UNCHANGED <<router, tries_left, max_length2, unrouted, attempts, budget, resets, call, deferred, comparison>>

route_connect ==
    /\ pc = "connect"
    /\ router' = IF router.current_column < router.channel_length
                 THEN connect_pins(router) ELSE router
    /\ deferred' = IF router.current_column < router.channel_length
                   THEN deferred_pin(router) ELSE "none"
    /\ pc' = "collapse"
    /\ UNCHANGED <<tries_left, max_length2, unrouted, exc, stop, iters, attempts, budget, resets, call, comparison>>

route_collapse ==
    /\ pc = "collapse"
    /\ router' = collapse_split_nets(router)
    /\ pc' = "compress"
    /\ UNCHANGED <<tries_left, max_length2, unrouted, exc, stop, iters, attempts, budget, resets, call, deferred, comparison>>

route_compress ==
    /\ pc = "compress"
    /\ router' = compress_all(router, split_nets(router))
    /\ pc' = "push"
    /\ UNCHANGED <<tries_left, max_length2, unrouted, exc, stop, iters, attempts, budget, resets, call, deferred, comparison>>

\* push_unsplit_nets(), then top_net, bottom_net = self.pins
route_push ==
    /\ pc = "push"
    /\ router' = push_unsplit_nets(router)
    /\ unrouted' = pins(router')
    /\ pc' = IF unrouted'[1] # None THEN "widen_top"
             ELSE IF unrouted'[2] # None THEN "widen_bottom"
             ELSE "extend"
    /\ UNCHANGED <<tries_left, max_length2, exc, stop, iters, attempts, budget, resets, call, deferred, comparison>>

route_widen_top ==
    /\ pc = "widen_top"
    /\ router' = connect_pins(widen_channel(router, "T"))
    /\ pc' = IF unrouted[2] # None THEN "widen_bottom" ELSE "extend"
    /\ UNCHANGED <<tries_left, max_length2, unrouted, exc, stop, iters, attempts, budget, resets, call, deferred, comparison>>

route_widen_bottom ==
    /\ pc = "widen_bottom"
    /\ router' = connect_pins(widen_channel(router, "B"))
    /\ pc' = "extend"
    /\ UNCHANGED <<tries_left, max_length2, unrouted, exc, stop, iters, attempts, budget, resets, call, deferred, comparison>>

\* Faulty variant of route_extend: the column pointer does not advance.
route_extend_keeping_column ==
    /\ pc = "extend"
    /\ router' = extend_nets(router)
    /\ IF 2 * router'.channel_length >= max_length2
       THEN pc' = "exit" /\ stop' = "cutoff"
       ELSE pc' = "loop" /\ UNCHANGED stop
    /\ deferred' = "none"
    /\ UNCHANGED <<tries_left, max_length2, unrouted, exc, iters, attempts, budget, resets, call, comparison>>

\* extend_nets(), current_column += 1, and the failsafe break
route_extend ==
    /\ pc = "extend"
    /\ router' = [extend_nets(router) EXCEPT !.current_column = @ + 1]
    /\ IF 2 * router'.channel_length >= max_length2
       THEN pc' = "exit" /\ stop' = "cutoff"
       ELSE pc' = "loop" /\ UNCHANGED stop
    /\ deferred' = "none"
    /\ UNCHANGED <<tries_left, max_length2, unrouted, exc, iters, attempts, budget, resets, call, comparison>>

\* _get_node_orientation(), _simplify(), return self.G
route_return ==
    /\ pc = "exit"
    /\ router' = [router EXCEPT !.G = _simplify(_get_node_orientation(@))]
    /\ pc' = "returned"
    /\ UNCHANGED <<tries_left, max_length2, unrouted, exc, stop, iters, attempts, budget, resets, call, deferred, comparison>>

\* An exception leaves route(): route_and_retry catches ValueError only.
route_and_retry_except ==
    /\ pc = "raised"
    /\ IF exc = "ValueError"
       THEN enter_route_and_retry(reset(router, router.initial_channel_width + 1), tries_left - 1)
       ELSE /\ pc' = "crashed"
            /\ UNCHANGED <<router, tries_left, max_length2, unrouted, exc, stop, iters, attempts>>
    /\ UNCHANGED <<budget, resets, call, deferred, comparison>>

\* The caller sees that the failsafe stopped the run and widens the channel
\* itself: reset(initial_channel_width + 1), then route again.
caller_reset ==
    /\ pc = "returned"
    /\ stop = "cutoff"
    /\ resets < MaxResets
    /\ router' = reset(router, router.initial_channel_width + 1)
    /\ pc' = "constructed"
    /\ resets' = resets + 1
    /\ tries_left' = None
    /\ budget' = None
    /\ attempts' = 0
    /\ iters' = 0
    /\ stop' = "none"
    /\ max_length2' = 0
    /\ UNCHANGED <<unrouted, exc, call, deferred, comparison>>

Next ==
    \/ route_and_retry
    \/ route_loop
    \/ route_connect
    \/ route_collapse
    \/ route_compress
    \/ route_push
    \/ route_widen_top
    \/ route_widen_bottom
    \/ route_extend
    \/ route_return
    \/ route_and_retry_except
    \/ caller_reset

Spec == Init /\ [][Next]_vars

\* ------------------------------------------------- compare_scores on its own
\* Scores (n_freed, distance_ranking, jog_length_sum) with entries up to
\* MaxScore and a ranking of up to MaxNet distances.
Scores ==
    (0 .. MaxScore)
        \X (UNION {[1 .. n -> 0 .. MaxScore] : n \in 0 .. MaxNet})
        \X (0 .. MaxScore)

\* Two scores to compare, no router.
ScoreInit ==
    /\ \E score1 \in Scores : \E score2 \in Scores :
          comparison = [score1 |-> score1, score2 |-> score2,
                        better12 |-> FALSE, better21 |-> FALSE]
    /\ pc = "scores"
    /\ router = NoRouter
    /\ call = "none"
    /\ tries_left = None
    /\ max_length2 = 0
    /\ unrouted = <<None, None>>
    /\ exc = "none"
    /\ stop = "none"
    /\ iters = 0
    /\ attempts = 0
    /\ budget = None
    /\ resets = 0
    /\ deferred = "none"

\* compare_scores(score1, score2) and compare_scores(score2, score1)
compare_both_ways ==
    /\ pc = "scores"
    /\ comparison' = [comparison EXCEPT
                         !.better12 = compare_scores(comparison.score1, comparison.score2),
                         !.better21 = compare_scores(comparison.score2, comparison.score1)]
    /\ pc' = "compared"
    /\ UNCHANGED <<router, tries_left, max_length2, unrouted, exc, stop, iters, attempts,
                   budget, resets, call, deferred>>

ScoreNext == compare_both_ways

ScoreSpec == ScoreInit /\ [][ScoreNext]_vars

\* --------------------------------------------------------------- properties
\* Vocabulary of the properties: what a wire covers on the grid, the wires
\* of one net, the boundary-row terminals of the pins.
span(a, b) == (IF a < b THEN a ELSE b) .. (IF a < b THEN b ELSE a)

\* A wire covers every grid point between its two endpoints.
wire_points(e) ==
    LET u == CHOOSE n \in e : TRUE
        v == CHOOSE n \in e : n # u
    IN  {<<x, y>> : x \in span(u[1], v[1]), y \in span(u[2], v[2])}

wire_units(e) ==
    {{pq[1], pq[2]} :
        pq \in {d \in wire_points(e) \X wire_points(e) :
                   \/ d[2] = <<d[1][1] + 1, d[1][2]>>
                   \/ d[2] = <<d[1][1], d[1][2] + 1>>}}

net_edges(g, net) == {e \in DOMAIN g.net : g.net[e] = net}

net_nodes(g, net) == UNION net_edges(g, net)

net_points(g, net) == UNION {wire_points(e) : e \in net_edges(g, net)}

net_units(g, net) == UNION {wire_units(e) : e \in net_edges(g, net)}

\* The nodes joined to S by the given wires.
RECURSIVE reach(_, _)
reach(edges, S) ==
    LET S2 == S \cup UNION {e \in edges : e \cap S # {}}
    IN  IF S2 = S THEN S ELSE reach(edges, S2)

connected(g, net) ==
    \/ net_nodes(g, net) = {}
    \/ reach(net_edges(g, net), {CHOOSE n \in net_nodes(g, net) : TRUE}) = net_nodes(g, net)

\* Terminals: row channel_width + 1 for a top pin, row 0 for a bottom pin.
top_terminal(r, x) == <<x, r.channel_width + 1>>

bottom_terminal(r, x) == <<x, 0>>

terminals(r, net) ==
    {top_terminal(r, x) : x \in {i \in 0 .. Len(r.T) - 1 : Tat(r, i) = net}}
        \cup {bottom_terminal(r, x) : x \in {i \in 0 .. Len(r.B) - 1 : Bat(r, i) = net}}

\* The graph holds a vertical wire of the net that starts at the terminal.
pin_wired(r, terminal, net) ==
    \E e \in net_edges(r.G, net) : terminal \in e /\ \A n \in e : n[1] = terminal[1]

all_pins_wired(r) ==
    \A x \in 0 .. Len(r.T) - 1 :
        /\ Tat(r, x) # 0 => pin_wired(r, top_terminal(r, x), Tat(r, x))
        /\ Bat(r, x) # 0 => pin_wired(r, bottom_terminal(r, x), Bat(r, x))

\* A nonzero pin in the current column or a later one.
pins_left(r) ==
    \E i \in r.current_column .. Len(r.T) - 1 : Tat(r, i) # 0 \/ Bat(r, i) # 0

has_pin(r) == Nets(r.T, r.B) # {}

\* ceil(1.5 * N)
ceil_one_and_a_half(N) == (3 * N + 1) \div 2

\* route() is running: the loop test, one of the phases of a column, or the
\* statements after the loop.
in_route == pc \in {"loop", "connect", "collapse", "compress", "push",
                    "widen_top", "widen_bottom", "extend", "exit"}

\* C1: after every phase of every column, the grid points and the unit
\* segments covered by the wires of two different nets are disjoint.
C1_WiresOfDistinctNetsDisjoint ==
    in_route =>
        \A a \in DOMAIN router.Y : \A b \in DOMAIN router.Y :
            a # b =>
                /\ net_points(router.G, a) \cap net_points(router.G, b) = {}
                /\ net_units(router.G, a) \cap net_units(router.G, b) = {}

\* C2: when route() returns after the loop found the router finished, the
\* wires of every net form one connected graph that holds the terminal of
\* every pin of the net.
C2_NetsConnectedWithTerminals ==
    (pc = "returned" /\ stop = "finished") =>
        \A net \in DOMAIN router.Y :
            /\ connected(router.G, net)
            /\ terminals(router, net) \subseteq net_nodes(router.G, net)

\* C3: in every reachable state no track is in the track sets of two
\* different nets.
C3_TrackHasOneOwner ==
    \A a \in DOMAIN router.Y : \A b \in DOMAIN router.Y :
        a # b => router.Y[a] \cap router.Y[b] = {}

\* C3, its case: a pin found no track because every track is owned, none of
\* them by the pin's net, and the router is about to widen the channel.
C3_Witness ==
    /\ pc \in {"widen_top", "widen_bottom"}
    /\ free_tracks(router) = {}
    /\ occupied_tracks(router) # {}
    /\ \E k \in 1 .. 2 : unrouted[k] # None /\ router.Y[unrouted[k]] = {}

\* C4: when route() has returned a graph, every net owns at most one track.
C4_NoSplitNetAtReturn ==
    pc = "returned" => \A net \in DOMAIN router.Y : Cardinality(router.Y[net]) <= 1

\* C5: when route() has returned a graph, every nonzero pin has a vertical
\* wire of its net in its column that starts at its boundary row.
C5_EveryPinWiredAtReturn ==
    pc = "returned" => all_pins_wired(router)

\* C6: the loop stops normally only when no pin is left at or after the
\* current column and no net owns a track, and it starts another column only
\* when a pin is left or a track is owned.
C6_LoopStopsExactlyWhenDone ==
    /\ (pc = "exit" /\ stop = "finished") =>
           (~pins_left(router) /\ occupied_tracks(router) = {})
    /\ pc = "connect" =>
           (pins_left(router) \/ occupied_tracks(router) # {})

\* Position of a state of route() in the run: the iteration, then the place
\* in it.  The loop test that follows an iteration is its last place.
route_progress ==
    10 * iters +
        (CASE pc = "connect"      -> 1
           [] pc = "collapse"     -> 2
           [] pc = "compress"     -> 3
           [] pc = "push"         -> 4
           [] pc = "widen_top"    -> 5
           [] pc = "widen_bottom" -> 6
           [] pc = "extend"       -> 7
           [] pc = "loop"         -> 8
           [] pc = "exit"         -> 9
           [] OTHER               -> 0)

\* C7: for an input of length N with a nonzero pin, route() terminates: the
\* column loop runs at most ceil(1.5 * N) iterations, and every step of
\* route() moves on in the run, to a later place of route() or to its return.
C7_RouteTerminates ==
    /\ [](has_pin(router) => iters <= ceil_one_and_a_half(Len(router.T)))
    /\ [][(in_route /\ has_pin(router)) =>
             \/ pc' = "returned" /\ iters' = iters
             \/ in_route' /\ route_progress' > route_progress]_vars

\* C7, its case: the failsafe ended a run of two or more columns in the very
\* iteration the bound allows last.
C7_Witness ==
    /\ pc = "exit"
    /\ stop = "cutoff"
    /\ Len(router.T) >= 2
    /\ iters = ceil_one_and_a_half(Len(router.T))

\* C8: a run that the failsafe stopped while a net owned a track or a pin
\* was unwired is never returned by route_and_retry() as a graph.
C8_CutoffNeverReturnsPartialGraph ==
    (pc = "returned" /\ stop = "cutoff" /\ tries_left # None) =>
        (occupied_tracks(router) = {} /\ all_pins_wired(router))

C10_ResetIsFresh ==
    (pc = "constructed" /\ resets > 0) =>
        /\ router.current_column = 0
        /\ \A net \in DOMAIN router.Y : router.Y[net] = {}
        /\ router.G = EmptyGraph
        /\ router.channel_width = router.initial_channel_width

\* ------------------------------------------------- properties of C11 .. C20
non_positive(value) == value # None /\ value <= 0

\* C11: a constructor call with pin arrays of different lengths, or with a
\* non-positive initial_channel_width, minimum_jog_length or
\* steady_net_constant, is rejected and leaves no router state.
C11_InvalidConstructionRejected ==
    (\/ Len(call.T) # Len(call.B)
     \/ non_positive(call.initial_channel_width)
     \/ non_positive(call.minimum_jog_length)
     \/ non_positive(call.steady_net_constant))
        => (pc = "rejected" /\ router = NoRouter)

\* The columns after the current one where the net (any net when none is
\* given) has a pin on the side (either side for "any").
pin_columns(r, net, side) ==
    LET on(P, i) == P[i + 1] # 0 /\ (net = None \/ P[i + 1] = net)
    IN  {i \in 0 .. Len(r.T) - 1 :
            /\ i > r.current_column
            /\ \/ side \in {"T", "any"} /\ on(r.T, i)
               \/ side \in {"B", "any"} /\ on(r.B, i)}

\* C12: next_pin(net, side) is the smallest column after current_column
\* where the net (any net when none is given) has a pin on the side (either
\* side when none is given), and none when there is no such column.
C12_NextPinIsEarliestPin ==
    pc # "rejected" =>
        \A net \in {None} \cup Nets(router.T, router.B) :
            \A side \in {"T", "B", "any"} :
                next_pin(router, net, side) =
                    IF pin_columns(router, net, side) = {} THEN None
                    ELSE Min(pin_columns(router, net, side))

\* The class the distance from the current column gives a net: rising when
\* its next pin is on top and no bottom pin of it lies within
\* steady_net_constant columns of the current column, falling in the mirror
\* case, steady otherwise.
class_by_distance(r, net) ==
    LET tops    == pin_columns(r, net, "T")
        bottoms == pin_columns(r, net, "B")
        far(cols) == cols = {} \/ Min(cols) - r.current_column > r.steady_net_constant
    IN  IF tops # {} /\ (bottoms = {} \/ Min(tops) < Min(bottoms)) /\ far(bottoms)
        THEN "rising"
        ELSE IF bottoms # {} /\ (tops = {} \/ Min(bottoms) < Min(tops)) /\ far(tops)
        THEN "falling"
        ELSE "steady"

\* C13: classify_net(net) is 'rising' exactly when the net's next pin is on
\* top and it has no upcoming bottom pin or its next bottom pin is more than
\* steady_net_constant columns away from the current column, 'falling' in
\* the mirror case, and 'steady' otherwise (a net whose next top and bottom
\* pins share a column is left out: neither pin is the next one).
C13_ClassifiedByDistance ==
    pc # "rejected" =>
        \A net \in Nets(router.T, router.B) :
            next_pin(router, net, "T") # next_pin(router, net, "B")
                \/ next_pin(router, net, "any") = None
                => classify_net(router, net) = class_by_distance(router, net)

\* The nets that cross the boundary b: a pin in a column < b and a pin in a
\* column >= b.
crossing_nets(T, B, b) ==
    {net \in Nets(T, B) :
        /\ \E i \in 0 .. b - 1 : T[i + 1] = net \/ B[i + 1] = net
        /\ \E i \in b .. Len(T) - 1 : T[i + 1] = net \/ B[i + 1] = net}

\* C14: on every constructed router compute_density() is the largest number
\* of nets crossing a column boundary b, 0 <= b < N: no boundary is crossed
\* by more nets, and some boundary is crossed by exactly that many; a router
\* constructed without an initial_channel_width starts with this width.
C14_DensityIsMaxCrossing ==
    pc = "constructed" =>
        LET T == router.T
            B == router.B
        IN  /\ \A b \in 0 .. Len(T) - 1 :
                  Cardinality(crossing_nets(T, B, b)) <= compute_density(T, B)
            /\ \/ Len(T) = 0 /\ compute_density(T, B) = 0
               \/ \E b \in 0 .. Len(T) - 1 :
                     Cardinality(crossing_nets(T, B, b)) = compute_density(T, B)
            /\ (call.initial_channel_width = None /\ resets = 0) =>
                  /\ router.initial_channel_width = compute_density(T, B)
                  /\ router.channel_width = compute_density(T, B)

\* C14, its case: a router built without a width whose two nets both cross
\* a boundary, so that the computed width is 2.
C14_Witness ==
    /\ pc = "constructed"
    /\ resets = 0
    /\ call.initial_channel_width = None
    /\ Cardinality(crossing_nets(router.T, router.B, 1)) = 2
    /\ router.channel_width = 2

\* C15: channel_width never decreases and changes only in a widen_channel
\* call, by exactly one per call (each widening step of route() makes one
\* call); a router seeded with compute_density() never has a channel_width
\* below compute_density(), at the end of the run in particular.
C15_WidthGrowsOnlyByWidening ==
    /\ [][IF pc \in {"widen_top", "widen_bottom"}
          THEN router'.channel_width = router.channel_width + 1
          ELSE router'.channel_width = router.channel_width]_vars
    /\ []((pc # "rejected" /\ call.initial_channel_width = None) =>
             router.channel_width >= compute_density(router.T, router.B))

\* C15, its case: a run seeded with the density has returned with a channel
\* that widen_channel made wider than the density.
C15_Witness ==
    /\ pc = "returned"
    /\ call.initial_channel_width = None
    /\ router.channel_width > compute_density(router.T, router.B)
    /\ compute_density(router.T, router.B) > 0

\* The tracks a pin of the current column may connect to: the free tracks
\* and the tracks of its net.
candidate_tracks(r, net) == free_tracks(r) \cup r.Y[net]

\* The current column has a top and a bottom pin of different nets, both
\* with a candidate track, and the candidate bottom track (the lowest) is
\* not below the candidate top track (the highest).
overlapping_pins(r) ==
    /\ r.current_column < r.channel_length
    /\ Tat(r, r.current_column) # 0
    /\ Bat(r, r.current_column) # 0
    /\ Tat(r, r.current_column) # Bat(r, r.current_column)
    /\ candidate_tracks(r, Tat(r, r.current_column)) # {}
    /\ candidate_tracks(r, Bat(r, r.current_column)) # {}
    /\ Min(candidate_tracks(r, Bat(r, r.current_column)))
          >= Max(candidate_tracks(r, Tat(r, r.current_column)))

before_widening == {"collapse", "compress", "push"}

shifted_track(t, p) == IF t >= p THEN t + 1 ELSE t

shifted_point(n, p) == <<n[1], shifted_track(n[2], p)>>

widening_side == IF pc = "widen_top" THEN "T" ELSE "B"

\* C17: widen_channel with insertion track p adds one to channel_width,
\* moves every owned track >= p and every wire endpoint on a row >= p up by
\* one and leaves the others (a wire across p keeps its lower endpoint),
\* keeps every wire with its net, and keeps the size and the order of each
\* net's track set; nothing else of the router changes.
C17_WideningShiftsFromInsertionTrack ==
    pc \in {"widen_top", "widen_bottom"} =>
        LET p      == new_track_position(router, widening_side)
            after  == widen_channel(router, widening_side)
            before == router
        IN  /\ after.channel_width = before.channel_width + 1
            /\ DOMAIN after.Y = DOMAIN before.Y
            /\ \A net \in DOMAIN before.Y :
                  /\ after.Y[net] = {shifted_track(t, p) : t \in before.Y[net]}
                  /\ Cardinality(after.Y[net]) = Cardinality(before.Y[net])
                  /\ sorted(after.Y[net]) =
                        [k \in 1 .. Cardinality(before.Y[net]) |->
                            shifted_track(sorted(before.Y[net])[k], p)]
            /\ Len(after.G.nodes) = Len(before.G.nodes)
            /\ Range(after.G.nodes) = {shifted_point(n, p) : n \in Range(before.G.nodes)}
            /\ DOMAIN after.G.net =
                  {{shifted_point(n, p) : n \in e} : e \in DOMAIN before.G.net}
            /\ \A e \in DOMAIN before.G.net :
                  after.G.net[{shifted_point(n, p) : n \in e}] = before.G.net[e]
            /\ [after EXCEPT !.channel_width = 0, !.Y = <<>>, !.G = EmptyGraph]
                  = [before EXCEPT !.channel_width = 0, !.Y = <<>>, !.G = EmptyGraph]

\* C17, its case: a channel about to be widened in which a net owns a track
\* at or above the insertion track, another track lies below it, and a wire
\* runs across it.
C17_Witness ==
    /\ pc \in {"widen_top", "widen_bottom"}
    /\ LET p == new_track_position(router, widening_side)
       IN  /\ \E net \in DOMAIN router.Y : \E t \in router.Y[net] : t >= p
           /\ \E net \in DOMAIN router.Y : \E t \in router.Y[net] : t < p
           /\ \E e \in DOMAIN router.G.net :
                 /\ \E n \in e : n[2] < p
                 /\ \E n \in e : n[2] >= p

\* C18: compare_scores is asymmetric: of no two scores is each judged better
\* than the other, and of two equal scores neither is judged better.
C18_BetterThanIsAsymmetric ==
    pc = "compared" =>
        /\ ~(comparison.better12 /\ comparison.better21)
        /\ comparison.score1 = comparison.score2 =>
              (~comparison.better12 /\ ~comparison.better21)

\* C18, its case: two scores that tie on the tracks freed and on the
\* distance ranking were compared, and the longer jogs were judged better.
C18_Witness ==
    /\ pc = "compared"
    /\ comparison.score1[1] = comparison.score2[1]
    /\ comparison.score1[2] = comparison.score2[2]
    /\ Len(comparison.score1[2]) = MaxNet
    /\ comparison.better12
    /\ ~comparison.better21

\* _get_node_orientation() and _simplify() once more on a graph.
simplified_again(g) == _simplify(_get_node_orientation(g))

\* C19: simplifying the returned (already simplified) graph again, with its
\* port profiles recomputed, yields the same nodes and the same edges.
C19_SimplifyIsIdempotent ==
    pc = "returned" =>
        LET again == simplified_again(router.G)
        IN  /\ Range(again.nodes) = Range(router.G.nodes)
            /\ again.net = router.G.net

\* C19, its case: a returned graph in which the simplifier merged a run of
\* wires into one edge longer than a column, next to a wire of another
\* direction.
C19_Witness ==
    /\ pc = "returned"
    /\ \E e \in DOMAIN router.G.net : \E u \in e : \E v \in e : v[1] > u[1] + 1
    /\ \E e \in DOMAIN router.G.net : \E u \in e : \E v \in e : v[2] > u[2]
    /\ Range(simplified_again(router.G).nodes) = Range(router.G.nodes)

\* The constructor call of the test suite's setUp: top = [1,0,2,0,3,4],
\* bottom = [1,0,0,2,4,3], default configuration.
ScenarioA ==
    /\ pc # "scores"
    /\ pc # "compared"
    /\ call.T = <<1, 0, 2, 0, 3, 4>>
    /\ call.B = <<1, 0, 0, 2, 4, 3>>
    /\ call.initial_channel_width = None
    /\ call.minimum_jog_length = DefaultMinimumJogLength
    /\ call.steady_net_constant = DefaultSteadyNetConstant

C21_AllZeroRoutesAtOnce ==
    (pc # "rejected" /\ ~has_pin(router)) =>
        /\ pc \notin {"raised", "crashed"}
        /\ iters = 0
        /\ router.G = EmptyGraph
        /\ router.channel_width = router.initial_channel_width

\* The router states connect_pins is called on from the present state: the
\* router itself at the start of a column inside the input, the widened
\* router in a widening step.
connect_calls ==
    IF pc = "connect" /\ router.current_column < router.channel_length THEN {router}
    ELSE IF pc = "widen_top" THEN {widen_channel(router, "T")}
    ELSE IF pc = "widen_bottom" THEN {widen_channel(router, "B")}
    ELSE {}

pin_net(r, side) ==
    IF side = "T" THEN Tat(r, r.current_column) ELSE Bat(r, r.current_column)

pin_terminal(r, side) ==
    IF side = "T" THEN top_terminal(r, r.current_column)
    ELSE bottom_terminal(r, r.current_column)

\* Of a set of tracks, the one nearest to the edge of the side.
nearest_track(tracks, side) == IF side = "T" THEN Max(tracks) ELSE Min(tracks)

\* The track the rule gives a pin of the net: the nearest owned track, the
\* nearest free track when the net owns none, none when there is neither.
track_by_rule(r, net, side) ==
    IF r.Y[net] # {} THEN nearest_track(r.Y[net], side)
    ELSE IF free_tracks(r) # {} THEN nearest_track(free_tracks(r), side)
    ELSE None

\* The condition of the special case of connect_pins.
whole_channel_case(r) ==
    LET net == pin_net(r, "T")
    IN  /\ net # 0
        /\ net = pin_net(r, "B")
        /\ free_tracks(r) = {}
        /\ r.Y[net] = {}
        /\ next_pin(r, net, "any") = None

\* C22: a pin that connect_pins connects is attached to the owned track of
\* its net nearest to its edge when the net owns a track, and then no track
\* is allocated to the net; to the free track nearest to its edge when the
\* net owns none; and it is left unconnected when there is neither (the
\* whole-channel case apart).
C22_OwnedTrackBeforeFreeTrack ==
    \A r \in connect_calls : \A side \in {"T", "B"} :
        LET net   == pin_net(r, side)
            after == connect_pins(r)
            t     == track_by_rule(r, net, side)
        IN  (net # 0 /\ ~whole_channel_case(r) /\ ~has_node(r.G, pin_terminal(r, side))) =>
                /\ has_node(after.G, pin_terminal(r, side)) =>
                      /\ t # None
                      /\ {pin_terminal(r, side), <<r.current_column, t>>} \in DOMAIN after.G.net
                      /\ r.Y[net] # {} => after.Y[net] = r.Y[net]
                /\ t = None => ~has_node(after.G, pin_terminal(r, side))

\* The wire from the bottom boundary to the top boundary in the current
\* column.
whole_channel_wire(r) == {bottom_terminal(r, r.current_column), top_terminal(r, r.current_column)}

\* C23: when the two pins of the current column are of one net, every track
\* is occupied, the net owns no track and has no later pin, connect_pins adds
\* exactly one wire, from row 0 to row channel_width + 1 and of that net,
\* allocates no track and changes nothing else; both pins are routed then,
\* and the column is left without a widening step.
C23_WholeChannelWire ==
    /\ [](\A r \in connect_calls :
             whole_channel_case(r) =>
                 LET after == connect_pins(r)
                     wire  == whole_channel_wire(r)
                 IN  /\ wire \notin DOMAIN r.G.net
                     /\ DOMAIN after.G.net = DOMAIN r.G.net \cup {wire}
                     /\ after.G.net[wire] = pin_net(r, "T")
                     /\ \A e \in DOMAIN r.G.net : after.G.net[e] = r.G.net[e]
                     /\ after.Y = r.Y
                     /\ [after EXCEPT !.G = EmptyGraph] = [r EXCEPT !.G = EmptyGraph]
                     /\ pins(after) = <<None, None>>)
    /\ []((pc # "rejected" /\ whole_channel_wire(router) \in DOMAIN router.G.net) =>
             pc \notin {"widen_top", "widen_bottom"})
    /\ [][(pc = "push" /\ whole_channel_wire(router) \in DOMAIN router.G.net) =>
             /\ pc' = "extend"
             /\ router'.channel_width = router.channel_width]_vars

\* C23, its case: the whole-channel wire of a net was added in a column
\* whose only track another net owns, and the column is about to be left.
C23_Witness ==
    /\ pc = "extend"
    /\ router.channel_width >= 1
    /\ free_tracks(router) = {}
    /\ whole_channel_wire(router) \in DOMAIN router.G.net
    /\ router.Y[router.G.net[whole_channel_wire(router)]] = {}
    /\ router.channel_width = router.initial_channel_width

\* The pairs of neighbouring tracks of a net: two tracks it owns with no
\* track of it between them.
adjacent_pairs(r, net) ==
    {<<t1, t2>> \in r.Y[net] \X r.Y[net] :
        t1 < t2 /\ \A t \in r.Y[net] : ~(t1 < t /\ t < t2)}

\* The candidate jogs <<net, <<t1, t2>>>>: the neighbouring pairs of the
\* split nets whose span meets no vertical wire of another net in the
\* current column.
candidate_jogs(r) ==
    {<<net, j>> \in UNION {{<<n, p>> : p \in adjacent_pairs(r, n)} : n \in DOMAIN r.Y} :
        \A v \in vertical_wiring(r) :
            v[3] # net => span(j[1], j[2]) \cap span(v[1], v[2]) = {}}

\* The jogs a step applied: the vertical wires of the current column that
\* are new in the graph, with their nets.
applied_jogs(before, after) ==
    {<<after.G.net[e], <<Min({n[2] : n \in e}), Max({n[2] : n \in e})>>>> :
        e \in {d \in DOMAIN after.G.net \ DOMAIN before.G.net :
                  \A n \in d : n[1] = before.current_column}}

\* C24: collapse_split_nets applies candidate jogs only, no two of
\* different nets overlapping, and whenever a candidate jog is left after
\* the filtering it applies at least one jog.
C24_SomeCandidateJogApplied ==
    pc = "collapse" =>
        LET after == collapse_split_nets(router)
            jogs  == applied_jogs(router, after)
        IN  /\ jogs \subseteq candidate_jogs(router)
            /\ \A a \in jogs : \A b \in jogs :
                  a[1] # b[1] => span(a[2][1], a[2][2]) \cap span(b[2][1], b[2][2]) = {}
            /\ candidate_jogs(router) # {} => jogs # {}

\* A set of jogs as the tuple the patterns hold: lowest jog first.
RECURSIVE jogs_in_order(_)
jogs_in_order(J) ==
    IF J = {} THEN <<>>
    ELSE LET j == CHOOSE a \in J : \A b \in J : a[1] <= b[1]
         IN  <<j>> \o jogs_in_order(J \ {j})

\* Every pattern over the split nets: for each split net, in the order of
\* split_nets, any set of its neighbouring pairs, the empty one included.
patterns_of(r) ==
    LET nets  == split_nets(r)
        pairs == UNION {adjacent_pairs(r, nets[k]) : k \in DOMAIN nets}
    IN  {[k \in DOMAIN nets |-> jogs_in_order(f[k])] :
            f \in {g \in [DOMAIN nets -> SUBSET pairs] :
                      \A k \in DOMAIN nets : g[k] \subseteq adjacent_pairs(r, nets[k])}}

jog_tracks(jogs) == UNION {{j[1], j[2]} : j \in jogs}

\* The pattern finishes the k-th split net: its jogs there form one chain
\* (as many tracks as jogs, and one more) over every track the net owns, and
\* the net has no pin after the current column.
finished_by(r, pattern, k) ==
    LET net  == split_nets(r)[k]
        jogs == Range(pattern[k])
    IN  /\ jogs # {}
        /\ Cardinality(jog_tracks(jogs)) = Cardinality(jogs) + 1
        /\ jog_tracks(jogs) = r.Y[net]
        /\ pin_columns(r, net, "any") = {}

\* The tracks of a net no jog of the pattern touches.
untouched(r, pattern, net) ==
    r.Y[net] \ UNION {jog_tracks(Range(pattern[k])) : k \in DOMAIN pattern}

edge_distance(r, tracks) ==
    LET from_bottom == Min(tracks) - 1
        from_top    == r.channel_width - Max(tracks)
    IN  IF from_bottom < from_top THEN from_bottom ELSE from_top

\* C25: evaluate_jogs(pattern) is the triple of the tracks freed (the jogs,
\* and one more for each net the pattern finishes), the ascending list of
\* the edge distances of the split nets that keep an untouched track, and
\* the sum of the lengths of the jogs.
C25_ScoreOfPattern ==
    pc = "collapse" =>
        \A pattern \in patterns_of(router) :
            LET score == evaluate_jogs(router, pattern)
                nets  == split_nets(router)
                jogs  == UNION {{<<k, j>> : j \in Range(pattern[k])} : k \in DOMAIN pattern}
                kept  == {k \in DOMAIN nets : untouched(router, pattern, nets[k]) # {}}
                RECURSIVE total(_)
                total(S) == IF S = {} THEN 0
                            ELSE LET a == CHOOSE b \in S : TRUE
                                 IN  (a[2][2] - a[2][1]) + total(S \ {a})
            IN  /\ Len(score) = 3
                /\ score[1] = Cardinality(jogs)
                                 + Cardinality({k \in DOMAIN nets : finished_by(router, pattern, k)})
                /\ Len(score[2]) = Cardinality(kept)
                /\ \A i \in 1 .. Len(score[2]) - 1 : score[2][i] <= score[2][i + 1]
                /\ \A d \in 0 .. router.channel_width :
                      Cardinality({i \in DOMAIN score[2] : score[2][i] = d}) =
                          Cardinality({k \in kept :
                              edge_distance(router, untouched(router, pattern, nets[k])) = d})
                /\ score[3] = total(jogs)

\* C25, its case: the collapser is about to run on two split nets, one of
\* which a pattern finishes while the other keeps an untouched track.
C25_Witness ==
    /\ pc = "collapse"
    /\ Len(split_nets(router)) = 2
    /\ \E pattern \in patterns_of(router) :
          /\ \E k \in DOMAIN pattern : finished_by(router, pattern, k)
          /\ evaluate_jogs(router, pattern)[1] = 2
          /\ Len(evaluate_jogs(router, pattern)[2]) = 1
          /\ evaluate_jogs(router, pattern)[3] >= 1

\* The calls compress_split_net(net) of the compress step: the router each
\* call finds, and its net.
compress_calls ==
    IF pc # "compress" THEN {}
    ELSE LET nets == split_nets(router)
         IN  {<<compress_all(router, SubSeq(nets, 1, k - 1)), nets[k]>> : k \in DOMAIN nets}

\* The router states whose jogs the compressor or the pusher commits in one
\* call, before and after.
jogging_calls ==
    {<<c[1], compress_split_net(c[1], c[2])>> : c \in compress_calls}
        \cup (IF pc = "push" THEN {<<router, push_unsplit_nets(router)>>} ELSE {})

\* How far the track of the net gets towards the goal.
reach_distance(r, net, track, goal) == Abs(scout(r, net, track, goal) - track)

\* C26: every vertical jog the compressor or the pusher commits is at least
\* minimum_jog_length long, and a track that cannot get that far stays where
\* it is: the lowest and the highest track of a split net towards the next
\* track of the net, the track of an unsplit net towards its edge.
C26_NoJogBelowMinimumLength ==
    /\ \A c \in jogging_calls : \A j \in applied_jogs(c[1], c[2]) :
          j[2][2] - j[2][1] >= c[1].minimum_jog_length
    /\ \A c \in compress_calls :
          LET r      == c[1]
              net    == c[2]
              tracks == sorted(r.Y[net])
              n      == Len(tracks)
              after  == compress_split_net(r, net)
          IN  /\ reach_distance(r, net, tracks[1], tracks[2]) < r.minimum_jog_length
                    => tracks[1] \in after.Y[net]
              /\ reach_distance(r, net, tracks[n], tracks[n - 1]) < r.minimum_jog_length
                    => tracks[n] \in after.Y[net]
    /\ pc = "push" =>
          \A net \in DOMAIN router.Y : \A t \in router.Y[net] :
              (/\ Cardinality(router.Y[net]) = 1
               /\ reach_distance(router, net, t, router.channel_width) < router.minimum_jog_length
               /\ reach_distance(router, net, t, 1) < router.minimum_jog_length)
                  => push_unsplit_nets(router).Y[net] = router.Y[net]

\* C27: compress_split_net(net) leaves the net with as many tracks as it
\* had: only its lowest track, upwards, and its highest track, downwards,
\* may move, no two of its tracks become one, and the track set of every
\* other net stays as it is.
C27_CompressKeepsTrackCount ==
    \A c \in compress_calls :
        LET r      == c[1]
            net    == c[2]
            after  == compress_split_net(r, net)
            low    == Min(r.Y[net])
            high   == Max(r.Y[net])
        IN  /\ Cardinality(after.Y[net]) = Cardinality(r.Y[net])
            /\ r.Y[net] \ {low, high} \subseteq after.Y[net]
            /\ Min(after.Y[net]) >= low
            /\ Max(after.Y[net]) <= high
            /\ \A other \in DOMAIN r.Y \ {net} : after.Y[other] = r.Y[other]

\* The tracks passed on the way from a track to d, d included.
on_the_way(track, d) == span(track, d) \ {track}

\* The track lies inside the span of a vertical wire of the current column.
under_vertical_wire(r, i) ==
    \E v \in vertical_wiring(r) : i \in span(v[1], v[2])

\* The rows of the channel that lie under a vertical wire of the current
\* column.
covered_tracks(r) == {i \in 0 .. r.channel_width + 1 : under_vertical_wire(r, i)}

\* The tracks between track and goal that scouting may return: nothing on
\* the way lies under a vertical wire (covered), and no other net occupies
\* the track.
landing_tracks(r, covered, net, track, goal) ==
    {d \in on_the_way(track, goal) :
        /\ on_the_way(track, d) \cap covered = {}
        /\ \A other \in DOMAIN r.Y \ {net} : d \notin r.Y[other]}

\* C28: throughout every run, scout(net, track, goal) is the landing track
\* farthest from track, and track itself when there is none; a jog changes
\* nothing then.
C28_ScoutFindsFarthestLanding ==
    [](pc \in {"compress", "push"} =>
        LET covered == covered_tracks(router)
        IN  \A net \in DOMAIN router.Y : \A track \in router.Y[net] :
                \A goal \in all_tracks(router) :
                    LET landing == landing_tracks(router, covered, net, track, goal)
                        d       == scout(router, net, track, goal)
                    IN  IF landing = {}
                        THEN d = track /\ jog(router, net, track, goal) = router
                        ELSE /\ d \in landing
                             /\ \A e \in landing : Abs(e - track) <= Abs(d - track))

\* C28, its case: a scout that jumps over a track of another net and lands
\* beyond it, short of a goal that lies behind a vertical wire.
C28_Witness ==
    /\ pc \in {"compress", "push"}
    /\ \E net \in DOMAIN router.Y : \E track \in router.Y[net] :
          \E goal \in all_tracks(router) :
              LET d == scout(router, net, track, goal)
              IN  /\ d # track
                  /\ d # goal
                  /\ under_vertical_wire(router, goal)
                  /\ \E i \in on_the_way(track, d) :
                        \E other \in DOMAIN router.Y \ {net} : i \in router.Y[other]

\* The single track of an unsplit net.
only_track(tracks) == CHOOSE t \in tracks : TRUE

\* C29: push_unsplit_nets changes the track set of a net only if the net
\* owns exactly one track and classify_net calls it rising, the new track
\* then being strictly higher, or falling, the new track then being strictly
\* lower; every other net keeps its track set, and apart from Y and the
\* wire graph the router stays as it is.
C29_PushMovesRisingUpFallingDown ==
    pc = "push" =>
        LET after == push_unsplit_nets(router)
        IN  /\ DOMAIN after.Y = DOMAIN router.Y
            /\ \A net \in DOMAIN router.Y :
                  after.Y[net] # router.Y[net] =>
                      /\ Cardinality(router.Y[net]) = 1
                      /\ Cardinality(after.Y[net]) = 1
                      /\ \/ /\ classify_net(router, net) = "rising"
                            /\ only_track(after.Y[net]) > only_track(router.Y[net])
                         \/ /\ classify_net(router, net) = "falling"
                            /\ only_track(after.Y[net]) < only_track(router.Y[net])
            /\ after.channel_width = router.channel_width
            /\ after.current_column = router.current_column
            /\ [after EXCEPT !.Y = <<>>, !.G = EmptyGraph]
                  = [router EXCEPT !.Y = <<>>, !.G = EmptyGraph]

\* C29, its case: the pusher is about to move a net, while a steady net on
\* one track that could move at least minimum_jog_length stays.
C29_Witness ==
    /\ pc = "push"
    /\ \E net \in DOMAIN router.Y :
          push_unsplit_nets(router).Y[net] # router.Y[net]
    /\ \E net \in DOMAIN router.Y :
          /\ Cardinality(router.Y[net]) = 1
          /\ classify_net(router, net) = "steady"
          /\ pin_columns(router, net, "any") # {}
          /\ \E goal \in {1, router.channel_width} :
                reach_distance(router, net, only_track(router.Y[net]), goal)
                    >= router.minimum_jog_length

\* The positions 1 .. channel_width + 1 a new track can take so that a wire
\* from the boundary of the side to it crosses the span of no vertical wire
\* of the current column: above every span from the top, at or below the
\* start of every span from the bottom.
reachable_positions(r, side) ==
    {q \in 1 .. r.channel_width + 1 :
        \A v \in vertical_wiring(r) : \A y \in span(v[1], v[2]) :
            IF side = "T" THEN q > y ELSE q <= y}

\* How far a position is off the midline: the tracks below it against the
\* tracks at and above it.
off_midline(r, q) == Abs((q - 1) - (r.channel_width - (q - 1)))

\* C30: widen_channel(side) inserts the track at a reachable position of
\* the side, none of which is nearer to the midline; and at the midline when
\* the current column has no vertical wire.
C30_NewTrackNearestToMidline ==
    pc \in {"widen_top", "widen_bottom"} =>
        LET p         == new_track_position(router, widening_side)
            reachable == reachable_positions(router, widening_side)
        IN  /\ reachable # {} =>
                  /\ p \in reachable
                  /\ \A q \in reachable : off_midline(router, p) <= off_midline(router, q)
            /\ vertical_wiring(router) = {} =>
                  /\ p \in 1 .. router.channel_width + 1
                  /\ off_midline(router, p) <= 1

\* ------------------------------------------------- properties of C31 .. C38

\* The net is closed by extend_nets: it owns one track and has no pin in a
\* column after the current one.
closed_net(r, net) ==
    Cardinality(r.Y[net]) = 1 /\ pin_columns(r, net, "any") = {}

\* The horizontal wires from the current column to the next, one per track
\* owned by a net that is not closed, as pairs of wire and net.
horizontal_wires(r) ==
    {<<{<<r.current_column, t>>, <<r.current_column + 1, t>>}, net>> :
        <<net, t>> \in {p \in (DOMAIN r.Y) \X all_tracks(r) :
                            ~closed_net(r, p[1]) /\ p[2] \in r.Y[p[1]]}}

\* C31: extend_nets releases the track of every net that owns exactly one
\* track and has no pin after the current column and adds no wire for it;
\* for every other net it adds one horizontal wire per owned track from
\* (current_column, t) to (current_column + 1, t), tagged with the net, and
\* keeps the track set; no other wire is added or changed.
C31_ExtendReleasesOrExtends ==
    pc = "extend" =>
        LET after == extend_nets(router)
            added == {<<e, after.G.net[e]>> :
                         e \in {d \in DOMAIN after.G.net :
                                   \/ d \notin DOMAIN router.G.net
                                   \/ after.G.net[d] # router.G.net[d]}}
        IN  /\ DOMAIN after.Y = DOMAIN router.Y
            /\ \A net \in DOMAIN router.Y :
                  after.Y[net] = IF closed_net(router, net) THEN {} ELSE router.Y[net]
            /\ DOMAIN router.G.net \subseteq DOMAIN after.G.net
            /\ added = horizontal_wires(router)
            /\ \A e \in DOMAIN after.G.net :
                  \A net \in DOMAIN router.Y :
                      closed_net(router, net) /\ e \notin DOMAIN router.G.net
                          => after.G.net[e] # net

\* C31, its case: extend_nets is about to close one net and to extend
\* another one that is split.
C31_Witness ==
    /\ pc = "extend"
    /\ \E net \in DOMAIN router.Y : closed_net(router, net)
    /\ \E net \in DOMAIN router.Y : Cardinality(router.Y[net]) > 1
    /\ \E net \in DOMAIN router.Y :
          Cardinality(router.Y[net]) = 1 /\ ~closed_net(router, net)

\* The phases of one column, between the loop test and the next loop test.
in_column == pc \in {"connect", "collapse", "compress", "push",
                     "widen_top", "widen_bottom", "extend"}

\* C32: a routing run starts with current_column = 0; current_column is the
\* number of completed loop iterations, it grows by one at the end of every
\* iteration and changes nowhere else in the run; in each column the phases
\* run in the order connect pins, collapse, compress, push, a widening with
\* a re-run of connect_pins for each side whose pin is unconnected after the
\* push (top first), extend.
C32_ColumnsAndPhasesInOrder ==
    /\ [](pc = "constructed" => router.current_column = 0)
    /\ [](in_column => router.current_column = iters - 1)
    /\ [](pc \in {"loop", "exit"} => router.current_column = iters)
    /\ [][in_route =>
             /\ router'.current_column =
                   IF pc = "extend" THEN router.current_column + 1
                   ELSE router.current_column
             /\ pc = "loop" /\ in_route' => pc' \in {"connect", "exit"}
             /\ pc = "connect" =>
                   /\ pc' = "collapse"
                   /\ router' = IF router.current_column < router.channel_length
                                THEN connect_pins(router) ELSE router
             /\ pc = "collapse" =>
                   pc' = "compress" /\ router' = collapse_split_nets(router)
             /\ pc = "compress" =>
                   pc' = "push" /\ router' = compress_all(router, split_nets(router))
             /\ pc = "push" =>
                   /\ router' = push_unsplit_nets(router)
                   /\ pc' = IF pins(router')[1] # None THEN "widen_top"
                            ELSE IF pins(router')[2] # None THEN "widen_bottom"
                            ELSE "extend"
                   /\ unrouted' = pins(router')
             /\ pc = "widen_top" =>
                   /\ router' = connect_pins(widen_channel(router, "T"))
                   /\ pc' = IF unrouted[2] # None THEN "widen_bottom" ELSE "extend"
             /\ pc = "widen_bottom" =>
                   /\ router' = connect_pins(widen_channel(router, "B"))
                   /\ pc' = "extend"
             /\ pc = "extend" =>
                   /\ pc' \in {"loop", "exit"}
                   /\ [router' EXCEPT !.current_column = router.current_column]
                         = extend_nets(router)]_vars

\* C32, its case: a column after the first has gone through every phase,
\* a widening included, and is about to be extended.
C32_Witness ==
    /\ pc = "extend"
    /\ router.current_column >= 1
    /\ (unrouted[1] # None \/ unrouted[2] # None)

\* The sides of a node on which it has a neighbour.
directions(g, n) ==
    {d \in {"north", "south", "east", "west"} :
        \E m \in neighbors(g, n) :
            \/ d = "north" /\ m[2] > n[2]
            \/ d = "south" /\ m[2] < n[2]
            \/ d = "east"  /\ m[1] > n[1]
            \/ d = "west"  /\ m[1] < n[1]}

\* A pure straight-through node: north and south only, or east and west only.
straight_through(g, n) ==
    directions(g, n) \in {{"north", "south"}, {"east", "west"}}

\* The graph holds a straight run of wires of the net from a to b that
\* passes only through the given straight-through nodes.
straight_run(g, through, a, b, net) ==
    /\ a[1] = b[1] \/ a[2] = b[2]
    /\ LET line == wire_points({a, b})
           run  == {e \in net_edges(g, net) :
                       e \subseteq line /\ e \subseteq through \cup {a, b}}
       IN  b \in reach(run, {a})

\* Nodes in the order of their columns, then of their rows: every pair of
\* different nodes is met once.
node_before(a, b) == a[1] < b[1] \/ (a[1] = b[1] /\ a[2] < b[2])

\* The nets of the wires that end at the node.
nets_at(g, n) == {g.net[e] : e \in {d \in DOMAIN g.net : n \in d}}

\* C33: the simplified graph that route() returns has exactly the nodes of
\* the routed graph that are not pure straight-through nodes, and two of
\* them are joined by an edge, tagged with the net, exactly when the routed
\* graph holds a straight run of wires of one net between them that passes
\* only through straight-through nodes.
C33_SimplifiedGraphKeepsBendsAndRuns ==
    [][(pc = "exit" /\ pc' = "returned") =>
        LET g       == router.G
            s       == router'.G
            through == {n \in Range(g.nodes) : straight_through(g, n)}
            kept    == Range(g.nodes) \ through
        IN  /\ Range(s.nodes) = kept
            /\ \A e \in DOMAIN s.net : e \subseteq kept /\ Cardinality(e) = 2
            /\ \A a \in kept : \A b \in {c \in kept : node_before(a, c)} :
                  LET runs == IF a[1] = b[1] \/ a[2] = b[2]
                              THEN {net \in nets_at(g, a) :
                                       straight_run(g, through, a, b, net)}
                              ELSE {}
                  IN  IF {a, b} \in DOMAIN s.net
                      THEN runs = {s.net[{a, b}]}
                      ELSE runs = {}]_vars

\* C33, its case: the graph about to be simplified has a vertical and a
\* horizontal straight-through node, a run over two or more wires and a
\* wire that joins two kept nodes directly.
C33_Witness ==
    /\ pc = "exit"
    /\ \E n \in Range(router.G.nodes) : directions(router.G, n) = {"north", "south"}
    /\ \E n \in Range(router.G.nodes) : directions(router.G, n) = {"east", "west"}
    /\ \E e \in DOMAIN router.G.net : \A n \in e : ~straight_through(router.G, n)
    /\ \E n \in Range(router.G.nodes) : Cardinality(directions(router.G, n)) = 3

\* Every nonzero pin of the current column has its vertical wire.
column_pins_wired(r) ==
    LET x == r.current_column
    IN  /\ Tat(r, x) # 0 => pin_wired(r, top_terminal(r, x), Tat(r, x))
        /\ Bat(r, x) # 0 => pin_wired(r, bottom_terminal(r, x), Bat(r, x))

\* C34: in every column x < N every nonzero pin of the column is connected
\* by the time extend_nets runs: one widening from the side of an
\* unconnected pin followed by the re-run of connect_pins attaches that pin.
C34_PinsConnectedBeforeExtend ==
    /\ (pc = "extend" /\ router.current_column < Len(router.T))
           => column_pins_wired(router)
    /\ pc = "widen_top" =>
           LET after == connect_pins(widen_channel(router, "T"))
           IN  pin_wired(after, top_terminal(after, after.current_column),
                         Tat(after, after.current_column))
    /\ (pc = "widen_bottom" /\ pins(router)[2] # None) =>
           LET after == connect_pins(widen_channel(router, "B"))
           IN  pin_wired(after, bottom_terminal(after, after.current_column),
                         Bat(after, after.current_column))

\* The pins whose vertical wire ends on the boundary row of their side:
\* pairs of column and side.
pins_on_boundary(r) ==
    {p \in (0 .. Len(r.T) - 1) \X {"T", "B"} :
        \/ p[2] = "T" /\ Tat(r, p[1]) # 0
                      /\ pin_wired(r, top_terminal(r, p[1]), Tat(r, p[1]))
        \/ p[2] = "B" /\ Bat(r, p[1]) # 0
                      /\ pin_wired(r, bottom_terminal(r, p[1]), Bat(r, p[1]))}

\* C35: the wire of a connected pin ends on its boundary row in every later
\* state of the run, row 0 for a bottom pin and row channel_width + 1 for a
\* top pin, whatever widenings follow; and no node lies outside these rows.
C35_TerminalsStayOnBoundary ==
    /\ [](in_route => \A n \in Range(router.G.nodes) :
                          n[2] >= 0 /\ n[2] <= router.channel_width + 1)
    /\ [][(in_route /\ in_route') =>
             pins_on_boundary(router) \subseteq pins_on_boundary(router')]_vars

\* C36: in every column the closed vertical spans of two vertical wires of
\* different nets are disjoint, after every phase of every column.
C36_VerticalSpansOfNetsDisjoint ==
    in_route =>
        \A e \in DOMAIN router.G.net : \A f \in DOMAIN router.G.net :
            (/\ router.G.net[e] # router.G.net[f]
             /\ \E x \in 0 .. router.current_column :
                   \A n \in e \cup f : n[1] = x)
                => wire_points(e) \cap wire_points(f) = {}

\* C37: a net that owns a track and has a pin in a column after the current
\* one owns a track after every step of the run as well: connect, collapse,
\* compress, push, widen and extend never take its last track, so a net loses
\* all its tracks only when it has no further pin.
C37_NetWithPinAheadKeepsTrack ==
    [][(in_route /\ in_route') =>
          \A net \in DOMAIN router.Y :
              (router.Y[net] # {} /\ pin_columns(router, net, "any") # {})
                  => router'.Y[net] # {}]_vars

\* C37, its case: the pusher is about to move the only track of a net with
\* a pin ahead: jog takes the track away and gives the destination.
C37_Witness ==
    /\ pc = "push"
    /\ \E net \in DOMAIN router.Y :
          /\ Cardinality(router.Y[net]) = 1
          /\ pin_columns(router, net, "any") # {}
          /\ push_unsplit_nets(router).Y[net] # router.Y[net]

\* The patterns the loop of collapse_split_nets compares, in its order: the
\* generated patterns none of whose jogs overlaps a vertical wire of another
\* net in the column.
enumerated_patterns(r) ==
    LET nets == split_nets(r)
        clear(pattern) ==
            \A idx \in DOMAIN pattern : \A k \in DOMAIN pattern[idx] :
                \A v \in vertical_wiring(r) :
                    v[3] = nets[idx]
                        \/ span(v[1], v[2]) \cap span(pattern[idx][k][1], pattern[idx][k][2]) = {}
    IN  SelectSeq(generate_jog_patterns(r), clear)

\* The pattern the loop keeps, <<>> for None.
chosen_pattern(r) ==
    best_of(r, enumerated_patterns(r), <<>>, <<0, <<>>, r.channel_width>>)

\* C38: on the scores of the patterns collapse_split_nets enumerates,
\* compare_scores is transitive, and no enumerated pattern has a score that
\* compare_scores judges better than the score of the chosen pattern.
C38_BetterThanIsTransitive ==
    pc = "collapse" =>
        LET patterns == enumerated_patterns(router)
            scores   == {evaluate_jogs(router, patterns[k]) : k \in DOMAIN patterns}
            chosen   == chosen_pattern(router)
        IN  /\ \A a \in scores : \A b \in scores : \A c \in scores :
                  (compare_scores(a, b) /\ compare_scores(b, c)) => compare_scores(a, c)
            /\ chosen # <<>> =>
                  \A s \in scores : ~compare_scores(s, evaluate_jogs(router, chosen))

====
